---- MODULE Spec2Model ----
(***************************************************************************)
(* A state-machine model of python-javaobj's v2 stream parser              *)
(* (javaobj/v2/core.py, JavaStreamParser) together with the beans it       *)
(* builds (javaobj/v2/beans.py).                                           *)
(*                                                                         *)
(* The parser is a recursive-descent decoder.  Its Python call stack is    *)
(* the variable "stack": one frame per active call, the last element being *)
(* the running one.  A handler that calls another handler is cut at the    *)
(* call: the part before the call and the part after the return are two    *)
(* actions of the same frame.  Objects live in "heap"; the identity of a   *)
(* Python object is its index in heap (0 is None).                         *)
(*                                                                         *)
(* The input stream is not fixed in advance: every read draws the value    *)
(* it gets from a bounded set, so the reachable behaviours are the parses  *)
(* of all bounded streams.  "pos" is the cursor (fd.tell()).               *)
(***************************************************************************)
EXTENDS Integers, Sequences, FiniteSets, TLC

\* ------------------------------------------------------------------ bounds
\* Weight of the stream: a record (a tag read, apart from resets, the ends
\* of annotation streams and the class names of declared fields) weighs 1,
\* a record of a rarer kind 2, and a class header other than the plain
\* serializable one adds 1, as does a content of an annotation stream
\* other than an exception
MaxWeight == 5
\* Weight of the stream of enum constants and references to them
MaxEnumWeight == 8
\* Handles a reference of the stream may name, from BASE_REFERENCE_IDX - 1
MaxHandles == 4
\* Items in one list: top-level contents, one annotation stream, one array
MaxItems == 2
\* Declared fields of one class descriptor
MaxFields == 2
\* Explicit resets (TC_RESET between records) are read while the handle
\* table has been reset less than MaxResets times, the reset of run()
\* included
MaxResets == 2
\* Weight of the stream of the first of two parsers run together; the
\* stream of the second holds one record
MaxTwoWeight == 3
\* Weight of the stream of an instance whose class levels are looked at
MaxLevelWeight == 6

\* --------------------------------------------------------------- constants
BASE_REFERENCE_IDX == 8257536      \* 0x7E0000

TC_NULL == 112
TC_REFERENCE == 113
TC_CLASSDESC == 114
TC_OBJECT == 115
TC_STRING == 116
TC_ARRAY == 117
TC_CLASS == 118
TC_BLOCKDATA == 119
TC_ENDBLOCKDATA == 120
TC_RESET == 121
TC_BLOCKDATALONG == 122
TC_EXCEPTION == 123
TC_LONGSTRING == 124
TC_PROXYCLASSDESC == 125
TC_ENUM == 126

SC_WRITE_METHOD == 1
SC_BLOCK_DATA == 8
SC_SERIALIZABLE == 2
SC_EXTERNALIZABLE == 4
SC_ENUM == 16

TerminalCodes == TC_NULL .. TC_ENUM

\* The codes that have an entry in __type_code_handlers
HandledCodes == TerminalCodes \ {TC_ENDBLOCKDATA, TC_RESET}

\* Bitwise AND of two flag bytes
RECURSIVE BitAnd(_, _)
BitAnd(a, b) ==
    IF a = 0 \/ b = 0 THEN 0
    ELSE (IF a % 2 = 1 /\ b % 2 = 1 THEN 1 ELSE 0) + 2 * BitAnd(a \div 2, b \div 2)

HasFlag(flags, bit) == BitAnd(flags, bit) # 0

\* ---------------------------------------------------------- input alphabet
\* Payloads of string records, as sequences of characters
StringValues == { <<"L", "A", ";">>, <<"x">> }
\* Headers of class descriptors: name, flags and field count.  The flags
\* cover every data type, the two invalid combinations and an enum; the
\* names are that of a class, that of an array class and a name of two
\* characters that is not one of an array class
ClassHeaders ==
    {[name |-> <<"A">>, flags |-> f, nb_fields |-> 0] :
        f \in {0, SC_SERIALIZABLE, SC_SERIALIZABLE + SC_WRITE_METHOD,
               SC_EXTERNALIZABLE, SC_EXTERNALIZABLE + SC_WRITE_METHOD,
               SC_SERIALIZABLE + SC_EXTERNALIZABLE,
               SC_SERIALIZABLE + SC_ENUM}}
    \cup {[name |-> <<"A">>, flags |-> SC_SERIALIZABLE, nb_fields |-> n] :
            n \in {-1, MaxFields}}
    \cup {[name |-> x, flags |-> SC_SERIALIZABLE, nb_fields |-> 0] :
            x \in { <<"[", "L">>, <<"x", "I">> }}
\* Tags before the class name of a declared field
FieldStringTags == {TC_STRING, TC_REFERENCE, TC_NULL}
\* Type characters of declared fields ("x" is no type character); the
\* fields after the first of a class are of type int
TypeChars == {"I", "L", "[", "x"}
TypeCharsAt(k) == IF k = 1 THEN TypeChars ELSE {"I"}
PrimitiveChars == {"B", "C", "D", "F", "I", "J", "S", "Z"}
FieldTypeChars == PrimitiveChars \cup {"L", "["}
\* Values of primitive fields and elements
PrimValues == {7}
\* Handles a TC_REFERENCE may carry
RefHandles == (BASE_REFERENCE_IDX - 1) .. (BASE_REFERENCE_IDX + MaxHandles - 2)

\* Width in bytes of a primitive of the given type character
PrimWidth(t) ==
    CASE t \in {"B", "Z"} -> 1
      [] t \in {"C", "S"} -> 2
      [] t \in {"I", "F"} -> 4
      [] OTHER -> 8

\* ------------------------------------------------------------------ values
Null == [t |-> "null", v |-> 0]
Ref(n) == [t |-> "ref", v |-> n]
Prim(x) == [t |-> "prim", v |-> x]
IsRef(x) == x.t = "ref"

VARIABLES
    pos,            \* cursor of the input stream
    handles,        \* __handles: handle -> node
    handle_maps,    \* __handle_maps: the archived tables
    current_handle, \* __current_handle
    heap,           \* the nodes constructed so far
    stack,          \* the call stack of the parser
    ret,            \* the value the last finished call returned
    contents,       \* run(): the top-level results
    status,         \* "init", "running", "done", "returned" or "error"
    err,            \* the kind of the error raised
    transformers,   \* __transformers
    epoch,          \* history: resets performed so far
    reglog,         \* history: every successful _set_handle
    ev,             \* history: what the last step did
    nrec,           \* history: weight of the stream read so far
    probe,          \* a flags byte and the data type computed for it
    eof,            \* the stream has been read to its end
    call            \* a function of the library applied on its own:
                    \* its arguments and its result

vars == <<pos, handles, handle_maps, current_handle, heap, stack, ret,
          contents, status, err, transformers, epoch, reglog, ev, nrec,
          probe, eof, call>>

\* ------------------------------------------------------------------ frames
\* One frame of the call stack.  Each function uses the locals it needs.
Frame(fn, pc) ==
    [fn |-> fn, pc |-> pc, tc |-> 0, bd |-> FALSE, cd |-> 0, h |-> 0,
     ep |-> 0, n |-> 0, i |-> 0, k |-> 0, acc |-> <<>>, lst |-> <<>>,
     vals |-> <<>>, ann |-> <<>>, name |-> <<>>, flags |-> 0, start |-> 0]

Top == stack[Len(stack)]
Pop(s) == SubSeq(s, 1, Len(s) - 1)
SetTop(s, f) == [s EXCEPT ![Len(s)] = f]

\* The stack after the running call returns.  A handler called by
\* _read_content returns through it (core.py 317-319): both frames go.
RetTo(s) ==
    LET p == Pop(s)
    IN IF Len(p) > 0 /\ p[Len(p)].fn = "read_content" THEN Pop(p) ELSE p

\* The stack after ExceptionRead is raised in the running call: the nearest
\* _read_content below catches it and returns the exception object
\* (core.py 320-322).
Unwind(s) ==
    LET k == CHOOSE j \in 1 .. Len(s) :
                 /\ s[j].fn = "read_content"
                 /\ \A m \in (j + 1) .. Len(s) : s[m].fn # "read_content"
    IN SubSeq(s, 1, k - 1)

\* ------------------------------------------------------------------- beans
\* "length" is history: the length the record declares
JavaString(handle, value) ==
    [type |-> "string", handle |-> handle, is_exception |-> FALSE,
     value |-> value, length |-> Len(value)]

JavaField(field_type, name, class_name) ==
    [type |-> field_type, name |-> name, class_name |-> class_name]

JavaClassDesc(class_type) ==
    [type |-> "classdesc", handle |-> 0, is_exception |-> FALSE,
     class_type |-> class_type, name |-> <<>>, desc_flags |-> 0,
     fields |-> <<>>, annotations |-> <<>>, super_class |-> 0,
     is_super_class |-> FALSE, interfaces |-> <<>>, enum_constants |-> {}]

\* "loaded" is history: _read_class_data has filled the instance.
\* "creator" is history: the place in __transformers of the transformer
\* that made the instance, 0 for JavaInstance() itself.
JavaInstance ==
    [type |-> "instance", handle |-> 0, is_exception |-> FALSE,
     classdesc |-> 0, field_data |-> <<>>, annotations |-> <<>>,
     is_external_instance |-> FALSE, loaded |-> FALSE, creator |-> 0]

JavaClass(handle, class_desc) ==
    [type |-> "class", handle |-> handle, is_exception |-> FALSE,
     classdesc |-> class_desc]

JavaEnum(handle, class_desc, value) ==
    [type |-> "enum", handle |-> handle, is_exception |-> FALSE,
     classdesc |-> class_desc, value |-> value]

JavaArray(handle, class_desc, field_type, content) ==
    [type |-> "array", handle |-> handle, is_exception |-> FALSE,
     classdesc |-> class_desc, field_type |-> field_type, data |-> content]

\* The data is kept as its length; "size" is history: the size the record
\* declares
BlockData(data) ==
    [type |-> "blockdata", handle |-> 0, is_exception |-> FALSE,
     data |-> data, size |-> data]

ExceptionState(exception_object, handle, data) ==
    [type |-> "exceptionstate", handle |-> handle, is_exception |-> FALSE,
     exception_object |-> exception_object, stream_data |-> data]

\* ---------------------------------------------------- the parser's context
\* The part of the state a handler works on, threaded through the
\* operators below.  "raised" is the error raised, "" when none.
Ctx ==
    [handles |-> handles, handle_maps |-> handle_maps,
     current_handle |-> current_handle, epoch |-> epoch, reglog |-> reglog,
     heap |-> heap, pos |-> pos, ret |-> ret, ev |-> ev, eof |-> eof,
     seek |-> -1, raised |-> ""]

Event(op, ok, h, n, c) ==
    [op |-> op, ok |-> ok, h |-> h, n |-> n, e |-> c.epoch,
     na |-> Len(c.handle_maps), sk |-> c.seek]

Raise(c, kind) ==
    [c EXCEPT !.raised = kind, !.ev = Event("raise", FALSE, 0, 0, c)]
Advance(c, nbytes) == [c EXCEPT !.pos = @ + nbytes]
\* self.__fd.seek to an offset of the stream; "seek" is history, the lowest
\* offset the step has sought to, -1 when it has not sought
fd_seek(c, offset) ==
    [c EXCEPT !.pos = offset,
              !.seek = IF @ = -1 \/ offset < @ THEN offset ELSE @]
\* self.__fd.read(length) when the stream holds "avail" bytes: the bytes
\* there are are read and nothing tells a short read
fd_read(c, length, avail) ==
    IF avail < length
    THEN [c EXCEPT !.pos = @ + avail, !.eof = TRUE]
    ELSE [c EXCEPT !.pos = @ + length]
\* The event of a step; a step that raised keeps the event of the failure
Did(c, op, h, n) ==
    IF c.raised # "" THEN c ELSE [c EXCEPT !.ev = Event(op, TRUE, h, n, c)]
\* A new object; its identity is Len(c.heap) + 1
Alloc(c, node) == [c EXCEPT !.heap = Append(@, node)]
NewId(c) == Len(c.heap) + 1

\* _reset that empties the table without archiving it
reset_forgetting(c) ==
    [c EXCEPT !.handles = <<>>,
              !.current_handle = BASE_REFERENCE_IDX,
              !.epoch = @ + 1]

\* _reset that archives the table and keeps its entries
reset_keeping(c) ==
    [c EXCEPT !.handle_maps = IF DOMAIN c.handles # {}
                              THEN Append(@, c.handles) ELSE @,
              !.current_handle = BASE_REFERENCE_IDX,
              !.epoch = @ + 1]

\* JavaStreamParser._reset
reset(c) ==
    [c EXCEPT !.handle_maps = IF DOMAIN c.handles # {}
                              THEN Append(@, c.handles) ELSE @,
              !.handles = <<>>,
              !.current_handle = BASE_REFERENCE_IDX,
              !.epoch = @ + 1]

\* _new_handle that leaves a handle out
new_handle_skipping(c) == [c EXCEPT !.current_handle = @ + 2]

\* JavaStreamParser._new_handle: the handle is c.current_handle
new_handle(c) == [c EXCEPT !.current_handle = @ + 1]

\* _set_handle that replaces an existing entry
set_handle_replacing(c, handle, content) ==
    [c EXCEPT !.handles = (handle :> content) @@ @,
              !.reglog = Append(@, [e |-> c.epoch, h |-> handle,
                                    n |-> content])]

\* JavaStreamParser._set_handle
set_handle(c, handle, content) ==
    IF handle \in DOMAIN c.handles
    THEN [c EXCEPT !.raised = "HandleCollision",
                   !.ev = Event("register", FALSE, handle, content, c)]
    ELSE [c EXCEPT !.handles = (handle :> content) @@ @,
                   !.reglog = Append(@, [e |-> c.epoch, h |-> handle,
                                         n |-> content])]

\* _do_reference with the lookup going to the lowest handle of the table
do_reference_first(c, handle) ==
    LET c1 == Advance(c, 4)
        first == CHOOSE x \in DOMAIN c1.handles :
                     \A y \in DOMAIN c1.handles : x <= y
    IN IF handle \in DOMAIN c1.handles
       THEN [c1 EXCEPT !.ret = Ref(c1.handles[first]),
                       !.ev = Event("reference", TRUE, handle,
                                    c1.handles[first], c1)]
       ELSE [c1 EXCEPT !.raised = "InvalidHandle",
                       !.ev = Event("reference", FALSE, handle, 0, c1)]

\* JavaStreamParser._do_reference, the handle read being "handle"
do_reference(c, handle) ==
    LET c1 == Advance(c, 4)
    IN IF handle \in DOMAIN c1.handles
       THEN [c1 EXCEPT !.ret = Ref(c1.handles[handle]),
                       !.ev = Event("reference", TRUE, handle,
                                    c1.handles[handle], c1)]
       ELSE [c1 EXCEPT !.raised = "InvalidHandle",
                       !.ev = Event("reference", FALSE, handle, 0, c1)]

\* -------------------------------------------------- functions of the beans
\* JavaClassDesc.data_type, of the flags byte; "raise" is the ValueError
data_type(flags) ==
    IF HasFlag(flags, SC_SERIALIZABLE)
    THEN (IF HasFlag(flags, SC_WRITE_METHOD) THEN "WRCLASS" ELSE "NOWRCLASS")
    ELSE IF HasFlag(flags, SC_EXTERNALIZABLE)
    THEN (IF HasFlag(flags, SC_WRITE_METHOD)
          THEN "OBJECT_ANNOTATION" ELSE "EXTERNAL_CONTENTS")
    ELSE "raise"

\* JavaClassDesc.validate: TRUE when it raises nothing
validate(cd) ==
    LET serial_or_extern == SC_SERIALIZABLE + SC_EXTERNALIZABLE
    IN /\ ~(BitAnd(cd.desc_flags, serial_or_extern) = 0 /\ cd.fields # <<>>)
       /\ BitAnd(cd.desc_flags, serial_or_extern) # serial_or_extern
       /\ IF HasFlag(cd.desc_flags, SC_ENUM)
          THEN cd.fields = <<>> /\ cd.interfaces = <<>>
          ELSE cd.enum_constants = {}

\* ParsedJavaContent.validate and its override: TRUE when it raises nothing
content_validate(node) ==
    IF node.type = "classdesc" THEN validate(node) ELSE TRUE

\* JavaClassDesc.get_hierarchy, as the list it fills
RECURSIVE get_hierarchy(_, _)
get_hierarchy(H, cd) ==
    (IF H[cd].super_class # 0
     THEN (IF H[H[cd].super_class].class_type = "PROXYCLASS"
           THEN <<>>
           ELSE get_hierarchy(H, H[cd].super_class))
     ELSE <<>>) \o <<cd>>

\* JavaField.validate, called by the constructor when class_name is set:
\* TRUE when it raises nothing
field_validate(field_type, java_type) ==
    field_type = "L" =>
        /\ java_type # <<>>
        /\ java_type[1] = "L"
        /\ java_type[Len(java_type)] = ";"

\* ------------------------------------------------------------- the inputs
\* The rarer kinds of records
RareCodes == {TC_ENUM, TC_LONGSTRING, TC_BLOCKDATA, TC_BLOCKDATALONG,
              TC_PROXYCLASSDESC, TC_ENDBLOCKDATA, TC_RESET, 0}
\* The weight of a record
Count(t) == IF t \in RareCodes THEN 2 ELSE 1
\* The weight a class header adds
HeaderWeight(hd) ==
    IF hd.flags = SC_SERIALIZABLE /\ hd.nb_fields = 0 /\ hd.name = <<"A">>
    THEN 0 ELSE 1

\* The tags of the streams of two parsers run together
TwoCodes == {TC_NULL, TC_REFERENCE, TC_STRING, TC_OBJECT, TC_CLASSDESC}
\* The tags of the stream of an instance whose class levels are looked at
LevelCodes == {TC_NULL, TC_OBJECT, TC_CLASSDESC}
\* The tags of the stream of enum constants and references to them
EnumCodes == {TC_NULL, TC_REFERENCE, TC_STRING, TC_CLASSDESC, TC_ENUM}
\* The bytes a stream may hold where a tag is read
StreamCodes ==
    CASE call.fn = "two" -> TwoCodes
      [] call.fn = "levels" -> LevelCodes
      [] call.fn = "enums" -> EnumCodes
      [] OTHER -> TerminalCodes \cup {0}
\* The weight the stream being read may have
Weight ==
    CASE call.fn = "two" -> IF call.running = 1 THEN MaxTwoWeight ELSE 1
      [] call.fn = "levels" -> MaxLevelWeight
      [] call.fn = "enums" -> MaxEnumWeight
      [] OTHER -> MaxWeight

\* The stream may hold a record of tag t next; 0 is a byte that is no tag
Tags == {t \in StreamCodes : nrec + Count(t) <= Weight}
\* The stream may hold a content of tag t next in an annotation stream
AnnotationWeight(t) == Count(t) + (IF t = TC_EXCEPTION THEN 0 ELSE 1)
AnnotationTags ==
    {t \in StreamCodes :
        /\ t \notin {TC_ENDBLOCKDATA, TC_RESET}
        /\ nrec + AnnotationWeight(t) <= Weight}
\* The stream may hold an explicit reset next
CanReset == epoch < MaxResets

\* A payload of declared length Len(x) of which the stream holds all the
\* bytes, or all but the last
Payloads(x) ==
    {[h |-> 0, v |-> x, len |-> Len(x)],
     [h |-> 0, v |-> SubSeq(x, 1, Len(x) - 1), len |-> Len(x)]}

\* What follows a string-producing tag in the stream: the handle of a
\* reference, or the declared length "len" and the bytes "v" there are
StringInput(tc) ==
    CASE tc = TC_REFERENCE ->
            {[h |-> x, v |-> <<>>, len |-> 0] : x \in RefHandles}
      [] tc = TC_STRING ->
            UNION {Payloads(x) : x \in StringValues}
      [] tc = TC_LONGSTRING ->
            Payloads(<<"x">>) \cup {[h |-> 0, v |-> <<>>, len |-> -1]}
      [] OTHER -> {[h |-> 0, v |-> <<>>, len |-> 0]}

\* JavaStreamParser._read_new_string
read_new_string(c, tc, inp) ==
    IF tc = TC_REFERENCE
    THEN LET c1 == do_reference(c, inp.h)
         IN IF c1.raised # "" THEN c1
            ELSE IF c1.heap[c1.ret.v].type # "string"
            THEN Raise(c1, "InvalidStringReference")
            ELSE c1
    ELSE LET handle == c.current_handle
             c1 == new_handle(c)
         IN IF tc \notin {TC_STRING, TC_LONGSTRING}
            THEN Raise(c1, "UnboundLocalError")
            ELSE IF tc = TC_LONGSTRING /\ (inp.len < 0 \/ inp.len > 2147483647)
            THEN Raise(Advance(c1, 8), "InvalidStringLength")
            ELSE LET c2 == fd_read(Advance(c1, IF tc = TC_STRING THEN 2 ELSE 8),
                                   inp.len, Len(inp.v))
                     id == NewId(c2)
                     c3 == Alloc(c2, [JavaString(handle, inp.v) EXCEPT
                                         !.length = inp.len])
                     c4 == set_handle(c3, handle, id)
                 IN IF c4.raised # "" THEN c4
                    ELSE Did([c4 EXCEPT !.ret = Ref(id)], "string", handle, id)

\* ------------------------------------------------------------ state change
Commit(c, stk, cont, nr, st) ==
    /\ handles' = c.handles
    /\ handle_maps' = c.handle_maps
    /\ current_handle' = c.current_handle
    /\ epoch' = c.epoch
    /\ reglog' = c.reglog
    /\ heap' = c.heap
    /\ pos' = c.pos
    /\ ev' = c.ev
    /\ nrec' = nr
    /\ transformers' = transformers
    /\ probe' = probe
    /\ eof' = c.eof
    /\ call' = call
    /\ IF c.raised # ""
       THEN /\ status' = "error"
            /\ err' = c.raised
            /\ stack' = <<>>
            /\ UNCHANGED <<contents, ret>>
       ELSE /\ status' = st
            /\ err' = err
            /\ stack' = stk
            /\ contents' = cont
            /\ ret' = c.ret

\* A step inside the parse
Step(c, stk, nr) == Commit(c, stk, contents, nr, "running")
\* The running call returns c.ret
Return(c) == Step(c, RetTo(stack), nrec)
\* The running call raises ExceptionRead(obj)
RaiseExceptionRead(c, obj) ==
    Step(Did([c EXCEPT !.ret = Ref(obj)], "exception_read", 0, obj),
         Unwind(stack), nrec)

\* The running call reads the stream next (DataStreamReader.read raises
\* EOFError on a short read; only run() catches it, at the tag of a
\* top-level item)
ReadsNext ==
    LET f == Top
    IN \/ f.fn \in {"do_reference", "do_block_data", "do_object",
                    "do_enum", "do_class", "do_array", "do_exception"}
          /\ f.pc = "start"
       \/ f.fn = "read_new_string"
          /\ f.tc \in {TC_REFERENCE, TC_STRING, TC_LONGSTRING}
       \/ f.fn = "do_classdesc" /\ f.pc = "start"
          /\ f.tc \in {TC_REFERENCE, TC_CLASSDESC, TC_PROXYCLASSDESC}
       \/ f.fn = "do_classdesc" /\ f.pc = "field" /\ Len(f.acc) < f.k
       \/ f.fn = "do_classdesc" /\ f.pc = "annotations"
       \/ f.fn = "read_class_annotations" /\ f.pc = "next"
       \/ f.fn = "read_class_data" /\ f.pc = "field"
          /\ f.k <= Len(heap[f.lst[f.i]].fields)
       \/ f.fn = "do_enum" /\ f.pc = "classdesc" /\ IsRef(ret)
       \/ f.fn = "do_array" /\ f.pc = "elem" /\ Len(f.vals) < f.k
       \/ f.fn = "do_array" /\ f.pc = "classdesc" /\ IsRef(ret)
          /\ Len(heap[ret.v].name) >= 2
          /\ heap[ret.v].name[2] \in FieldTypeChars

\* The call (fn, pc) is running and takes its step: it does not read a
\* stream that has ended
Running(fn, pc) ==
    /\ status = "running"
    /\ Len(stack) > 0
    /\ Top.fn = fn
    /\ Top.pc = pc
    /\ ~(eof /\ ReadsNext)

\* ------------------------------------------------------------------- run()
\* The transformer lists load() builds (main.py 48-60): the default
\* transformer alone, or a caller's BaseTransformer before it.
TransformerLists == { <<"default">>, <<"user", "default">> }

\* No function has been applied on its own
NoCall == [fn |-> "none"]

\* JavaStreamParser.__init__: the state of a new parser
InitParser ==
    /\ pos = 0
    /\ handles = <<>>
    /\ handle_maps = <<>>
    /\ current_handle = BASE_REFERENCE_IDX
    /\ heap = <<>>
    /\ stack = <<>>
    /\ ret = Null
    /\ contents = <<>>
    /\ status = "init"
    /\ err = ""
    /\ epoch = 0
    /\ reglog = <<>>
    /\ ev = [op |-> "init", ok |-> TRUE, h |-> 0, n |-> 0, e |-> 0, na |-> 0,
             sk |-> -1]
    /\ nrec = 0
    /\ probe = [flags |-> 0, data_type |-> "none"]
    /\ eof = FALSE

Init ==
    /\ InitParser
    /\ transformers \in TransformerLists
    /\ call = NoCall

\* run(), lines 134-145: the header and the first reset
Run_Header ==
    /\ status = "init"
    /\ \E hdr \in {"ok", "magic", "version"} :
         CASE hdr = "magic" ->
                Commit(Raise(Advance(Ctx, 2), "InvalidMagic"),
                       stack, contents, nrec, "error")
           [] hdr = "version" ->
                Commit(Raise(Advance(Ctx, 4), "InvalidVersion"),
                       stack, contents, nrec, "error")
           [] OTHER ->
                Commit(Did(reset(Advance(Ctx, 4)), "reset", 0, 0),
                       <<Frame("run", "loop")>>, contents, nrec, "running")

\* run(), lines 149-156 and 177-185: the stream has ended
Run_End ==
    /\ Running("run", "loop")
    /\ IF \E h \in DOMAIN handles : ~content_validate(heap[handles[h]])
       THEN Commit(Raise(Ctx, "InvalidClassDesc"),
                   stack, contents, nrec, "error")
       ELSE Commit(Did([Ctx EXCEPT !.handle_maps =
                            IF DOMAIN handles # {}
                            THEN Append(@, handles) ELSE @],
                       "end", 0, 0),
                   stack, contents, nrec, "done")

\* run(), lines 158-161: an explicit reset
Run_Reset ==
    /\ Running("run", "loop")
    /\ ~eof
    /\ CanReset
    /\ Step(Did(reset(Advance(Ctx, 1)), "reset", 0, 0), stack, nrec)

\* run(), lines 151-163: the tag of the next top-level item; k and i are
\* history, the number of nodes built before the item and the number of
\* items begun
Run_Read ==
    /\ Running("run", "loop")
    /\ ~eof
    /\ Len(contents) < MaxItems
    /\ \E tc \in Tags \ {TC_RESET} :
         Step(Did(Advance(Ctx, 1), "tag", 0, 0),
              Append(SetTop(stack, [Top EXCEPT !.pc = "append",
                                               !.start = pos,
                                               !.k = Len(heap),
                                               !.i = @ + 1]),
                     [Frame("read_content", "start") EXCEPT
                         !.tc = tc, !.bd = TRUE]),
              nrec + Count(tc))

\* run(), lines 164-175: the item is appended; a content flagged
\* is_exception is wrapped with the bytes from start to the cursor, kept
\* here as the pair of the two offsets
\* run() appending the item as it was returned
Run_Append_unwrapped ==
    /\ Running("run", "append")
    /\ Commit(Did(Ctx, "append", 0, 0),
              SetTop(stack, [Top EXCEPT !.pc = "loop"]),
              Append(contents, ret), nrec, "running")

Run_Append ==
    /\ Running("run", "append")
    /\ LET back == SetTop(stack, [Top EXCEPT !.pc = "loop"])
       IN IF IsRef(ret) /\ heap[ret.v].is_exception
          THEN LET id == NewId(Ctx)
                   c0 == fd_read(fd_seek(Ctx, Top.start),
                                 pos - Top.start, pos - Top.start)
                   c1 == Alloc(c0, ExceptionState(ret.v, heap[ret.v].handle,
                                                  <<Top.start, pos>>))
               IN Commit(Did(c1, "append", 0, id), back,
                         Append(contents, Ref(id)), nrec, "running")
          ELSE Commit(Did(Ctx, "append", 0, 0), back,
                      Append(contents, ret), nrec, "running")

\* load() that returns the list of the items whatever their number
Load_list ==
    /\ status = "done"
    /\ ret' = [t |-> "list", v |-> contents]
    /\ status' = "returned"
    /\ UNCHANGED <<pos, handles, handle_maps, current_handle, heap, stack,
                   contents, err, transformers, epoch, reglog, ev, nrec,
                   probe, eof, call>>

\* load(), main.py 61-71: run() has returned the contents; the result is
\* None, the only item, or the list of the items
Load ==
    /\ status = "done"
    /\ ret' = IF Len(contents) = 0 THEN Null
              ELSE IF Len(contents) = 1 THEN contents[1]
              ELSE [t |-> "list", v |-> contents]
    /\ status' = "returned"
    /\ UNCHANGED <<pos, handles, handle_maps, current_handle, heap, stack,
                   contents, err, transformers, epoch, reglog, ev, nrec,
                   probe, eof, call>>

\* ------------------------------------------------------ the transformers
\* DefaultObjectTransformer._type_mapper: the class names it maps
DefaultHandledClasses ==
    { <<"j","a","v","a",".","l","a","n","g",".","B","o","o","l","e","a","n">>,
      <<"j","a","v","a",".","l","a","n","g",".","I","n","t","e","g","e","r">>,
      <<"j","a","v","a",".","l","a","n","g",".","L","o","n","g">>,
      <<"j","a","v","a",".","u","t","i","l",".","A","r","r","a","y","L","i","s","t">>,
      <<"j","a","v","a",".","u","t","i","l",".","L","i","n","k","e","d","L","i","s","t">>,
      <<"j","a","v","a",".","u","t","i","l",".","H","a","s","h","M","a","p">>,
      <<"j","a","v","a",".","u","t","i","l",".","T","r","e","e","M","a","p">>,
      <<"j","a","v","a",".","u","t","i","l",".","L","i","n","k","e","d","H","a","s","h","M","a","p">>,
      <<"j","a","v","a",".","u","t","i","l",".","H","a","s","h","S","e","t">>,
      <<"j","a","v","a",".","u","t","i","l",".","L","i","n","k","e","d","H","a","s","h","S","e","t">>,
      <<"j","a","v","a",".","u","t","i","l",".","T","r","e","e","S","e","t">>,
      <<"j","a","v","a",".","t","i","m","e",".","S","e","r">> }

\* The class headers of the stream of an instance whose class levels are
\* looked at: a class the default transformer maps and one it does not,
\* with and without a write method, with and without a declared field
LevelHeaders ==
    {[name |-> x, flags |-> f, nb_fields |-> n] :
        x \in { <<"A">>,
                <<"j","a","v","a",".","u","t","i","l",".",
                  "A","r","r","a","y","L","i","s","t">> },
        f \in {SC_SERIALIZABLE, SC_SERIALIZABLE + SC_WRITE_METHOD},
        n \in {0, 1}}
\* The class header of the stream of enum constants: an enum class
EnumHeaders ==
    {[name |-> <<"A">>, flags |-> SC_SERIALIZABLE + SC_ENUM, nb_fields |-> 0]}
\* The class headers a stream may hold
StreamHeaders ==
    CASE call.fn = "levels" -> LevelHeaders
      [] call.fn = "enums" -> EnumHeaders
      [] OTHER -> ClassHeaders
\* The type characters the k-th declared field of a class may have
StreamTypeChars(k) == IF call.fn = "levels" THEN {"I"} ELSE TypeCharsAt(k)

\* JavaMap.HANDLED_CLASSES
JavaMap_HANDLED_CLASSES ==
    { <<"j","a","v","a",".","u","t","i","l",".","H","a","s","h","M","a","p">>,
      <<"j","a","v","a",".","u","t","i","l",".","T","r","e","e","M","a","p">> }

\* BaseTransformer.handled_classes of the caller's transformer
UserHandledClasses == { <<"A">> }

\* BaseTransformer.handled_classes of another transformer of the caller
OtherHandledClasses == { <<"A">>, <<"B">> }

\* transformer.create_instance(classdesc): TRUE when it returns an instance;
\* the NumPy transformer inherits ObjectTransformer.create_instance
creates_instance(t, name) ==
    CASE t = "default" -> name \in DefaultHandledClasses
      [] t = "user" -> name \in UserHandledClasses
      [] t = "other" -> name \in OtherHandledClasses
      [] OTHER -> FALSE

\* JavaStreamParser._is_default_supported
is_default_supported(class_name) ==
    /\ \E j \in 1 .. Len(transformers) : transformers[j] = "default"
    /\ class_name \in DefaultHandledClasses

\* _create_instance returning the result of the last transformer that
\* gives one
first_creator_last(list, name) ==
    IF \E j \in 1 .. Len(list) : creates_instance(list[j], name)
    THEN CHOOSE j \in 1 .. Len(list) :
            /\ creates_instance(list[j], name)
            /\ \A m \in (j + 1) .. Len(list) : ~creates_instance(list[m], name)
    ELSE 0

\* The loop of _create_instance: the place of the first transformer of the
\* list whose create_instance returns an instance, 0 when none does
first_creator(list, name) ==
    IF \E j \in 1 .. Len(list) : creates_instance(list[j], name)
    THEN CHOOSE j \in 1 .. Len(list) :
            /\ creates_instance(list[j], name)
            /\ \A m \in 1 .. (j - 1) : ~creates_instance(list[m], name)
    ELSE 0

\* JavaStreamParser._create_instance, as the new instance bean
create_instance(H, class_desc) ==
    LET j == first_creator(transformers, H[class_desc].name)
    IN IF j # 0
       THEN [JavaInstance EXCEPT !.is_external_instance =
                IF H[class_desc].name # <<>>
                THEN ~is_default_supported(H[class_desc].name)
                ELSE FALSE,
                                 !.creator = j]
       ELSE JavaInstance

\* _custom_readObject going back two bytes
custom_readObject_two_back(c, class_name) ==
    Raise(fd_seek(c, c.pos - 2), "CustomReadObjectUnhandled")

\* JavaStreamParser._custom_readObject: the cursor goes back one byte and
\* no transformer of the list overrides load_custom_writeObject
custom_readObject(c, class_name) ==
    Raise(fd_seek(c, c.pos - 1), "CustomReadObjectUnhandled")

\* -------------------------------------------------------- _read_content
HandlerOf(tc) ==
    CASE tc = TC_OBJECT -> "do_object"
      [] tc = TC_CLASS -> "do_class"
      [] tc = TC_ARRAY -> "do_array"
      [] tc \in {TC_STRING, TC_LONGSTRING} -> "read_new_string"
      [] tc = TC_ENUM -> "do_enum"
      [] tc \in {TC_CLASSDESC, TC_PROXYCLASSDESC} -> "do_classdesc"
      [] tc = TC_REFERENCE -> "do_reference"
      [] tc = TC_NULL -> "do_null"
      [] tc = TC_EXCEPTION -> "do_exception"
      [] OTHER -> "do_block_data"

\* _read_content, lines 295-319, up to the call of the handler
ReadContent ==
    /\ Running("read_content", "start")
    /\ LET f == Top
       IN IF ~f.bd /\ f.tc \in {TC_BLOCKDATA, TC_BLOCKDATALONG}
          THEN Step(Raise(Ctx, "BlockDataNotAllowed"), stack, nrec)
          ELSE IF f.tc \notin HandledCodes
          THEN IF f.cd # 0 /\ heap[f.cd].name # <<>>
               THEN IF data_type(heap[f.cd].desc_flags) = "raise"
                    THEN Step(Raise(Ctx, "UnhandledClassDataType"),
                              stack, nrec)
                    ELSE IF data_type(heap[f.cd].desc_flags) = "WRCLASS"
                    THEN Step(custom_readObject(Ctx, heap[f.cd].name),
                              stack, nrec)
                    ELSE Step(Raise(Ctx, "UnknownTag"), stack, nrec)
               ELSE Step(Raise(Ctx, "UnknownTag"), stack, nrec)
          ELSE Step(Did(Ctx, "dispatch", 0, 0),
                    Append(SetTop(stack, [f EXCEPT !.pc = "handler"]),
                           [Frame(HandlerOf(f.tc), "start") EXCEPT
                               !.tc = f.tc]),
                    nrec)

\* _do_null
DoNull ==
    /\ Running("do_null", "start")
    /\ Return(Did([Ctx EXCEPT !.ret = Null], "null", 0, 0))

\* _do_reference, as the handler of TC_REFERENCE
DoReference ==
    /\ Running("do_reference", "start")
    /\ \E h \in RefHandles : Return(do_reference(Ctx, h))

\* _read_new_string, as the handler of TC_STRING and TC_LONGSTRING, and
\* as called by _do_enum
ReadNewString ==
    /\ Running("read_new_string", "start")
    /\ \E inp \in StringInput(Top.tc) :
         Return(read_new_string(Ctx, Top.tc, inp))

\* Sizes of block data records; -1 is a negative TC_BLOCKDATALONG length
BlockSizes(tc) == IF tc = TC_BLOCKDATA THEN {1} ELSE {1, -1}

\* _do_block_data; the stream holds "avail" of the bytes of the block
DoBlockData ==
    /\ Running("do_block_data", "start")
    /\ \E size \in BlockSizes(Top.tc) :
         LET c1 == Advance(Ctx, IF Top.tc = TC_BLOCKDATA THEN 1 ELSE 4)
         IN IF size < 0
            THEN Return(Raise(c1, "InvalidBlockDataSize"))
            ELSE \E avail \in {size - 1, size} :
                   LET id == NewId(c1)
                       c2 == Alloc(fd_read(c1, size, avail),
                                   [BlockData(avail) EXCEPT !.size = size])
                   IN Return(Did([c2 EXCEPT !.ret = Ref(id)],
                                 "blockdata", 0, id))

\* ----------------------------------------------------- class descriptors
\* The call of _read_classdesc from the running frame, the tag read being
\* tc; the frame goes on at pc when _do_classdesc returns
CallClassDesc(pc, tc) ==
    Append(SetTop(stack, [Top EXCEPT !.pc = pc]),
           [Frame("do_classdesc", "start") EXCEPT !.tc = tc])

\* The call of _read_class_annotations(cd) from frame f
CallAnnotations(f, cd) ==
    Append(SetTop(stack, f),
           [Frame("read_class_annotations", "next") EXCEPT !.cd = cd])

\* Names of declared fields
FieldNames == { <<"f">> }

\* _do_classdesc, TC_NULL
DoClassDesc_Null ==
    /\ Running("do_classdesc", "start")
    /\ Top.tc = TC_NULL
    /\ Return(Did([Ctx EXCEPT !.ret = Null], "null", 0, 0))

\* _do_classdesc, TC_REFERENCE (lines 420-427), on the context
classdesc_reference(c, handle) ==
    LET c1 == do_reference(c, handle)
    IN IF c1.raised # "" THEN c1
       ELSE IF c1.heap[c1.ret.v].type # "classdesc"
       THEN Raise(c1, "NotAClassDesc")
       ELSE c1

DoClassDesc_Reference ==
    /\ Running("do_classdesc", "start")
    /\ Top.tc = TC_REFERENCE
    /\ \E h \in RefHandles : Return(classdesc_reference(Ctx, h))

\* _do_classdesc, any other code (line 449)
DoClassDesc_Invalid ==
    /\ Running("do_classdesc", "start")
    /\ Top.tc \notin {TC_NULL, TC_REFERENCE, TC_CLASSDESC, TC_PROXYCLASSDESC}
    /\ Step(Raise(Ctx, "InvalidClassDescStarter"), stack, nrec)

\* _do_classdesc, TC_CLASSDESC, lines 373-382: name, serial version UID,
\* new handle, flags and field count
DoClassDesc_Header ==
    /\ Running("do_classdesc", "start")
    /\ Top.tc = TC_CLASSDESC
    /\ \E hd \in {x \in StreamHeaders : nrec + HeaderWeight(x) <= Weight} :
         LET name == hd.name
             flags == hd.flags
             nb_fields == hd.nb_fields
             c1 == new_handle(Advance(Ctx, 2 + Len(name) + 8))
             c2 == Advance(c1, 1 + 2)
         IN IF nb_fields < 0
            THEN Step(Raise(c2, "InvalidFieldCount"), stack,
                      nrec + HeaderWeight(hd))
            ELSE Step(Did(c2, "classdesc_header", Ctx.current_handle, 0),
                      SetTop(stack, [Top EXCEPT !.pc = "field",
                                                !.h = Ctx.current_handle,
                                                !.ep = epoch,
                                                !.name = name,
                                                !.flags = flags,
                                                !.k = nb_fields]),
                      nrec + HeaderWeight(hd))

\* _do_classdesc, lines 383-399: one declared field
DoClassDesc_Field ==
    /\ Running("do_classdesc", "field")
    /\ Len(Top.acc) < Top.k
    /\ \E field_type \in StreamTypeChars(Len(Top.acc) + 1),
          field_name \in FieldNames :
         LET c1 == Advance(Ctx, 1 + 2 + Len(field_name))
         IN IF field_type \in {"L", "["}
            THEN \E stc \in FieldStringTags :
                 \E inp \in StringInput(stc) :
                   LET c2 == read_new_string(Advance(c1, 1), stc, inp)
                   IN IF c2.raised # ""
                      THEN Step(c2, stack, nrec)
                      ELSE IF ~field_validate(field_type,
                                              c2.heap[c2.ret.v].value)
                      THEN Step(Raise(c2, "InvalidFieldClassName"),
                                stack, nrec)
                      ELSE Step(c2,
                                SetTop(stack, [Top EXCEPT !.acc =
                                    Append(@, JavaField(field_type,
                                                        field_name,
                                                        c2.ret.v))]),
                                nrec)
            ELSE IF field_type \notin PrimitiveChars
            THEN Step(Raise(c1, "InvalidFieldType"), stack, nrec)
            ELSE Step(Did(c1, "classdesc_field", 0, 0),
                      SetTop(stack, [Top EXCEPT !.acc =
                          Append(@, JavaField(field_type, field_name, 0))]),
                      nrec)

\* _do_classdesc, lines 401-408: the bean is built and its annotations
\* are read
DoClassDesc_Bean ==
    /\ Running("do_classdesc", "field")
    /\ Len(Top.acc) = Top.k
    /\ LET id == NewId(Ctx)
           c1 == Alloc(Ctx, [JavaClassDesc("NORMALCLASS") EXCEPT
                                !.name = Top.name,
                                !.handle = Top.h,
                                !.desc_flags = Top.flags,
                                !.fields = Top.acc])
       IN Step(Did(c1, "classdesc_bean", Top.h, id),
               CallAnnotations([Top EXCEPT !.pc = "annotations", !.n = id],
                               id),
               nrec)

\* Interface lists of proxy class descriptors
InterfaceLists == { <<>>, << <<"A">> >> }

\* _do_classdesc, TC_PROXYCLASSDESC, lines 430-439
DoClassDesc_Proxy ==
    /\ Running("do_classdesc", "start")
    /\ Top.tc = TC_PROXYCLASSDESC
    /\ \E interfaces \in InterfaceLists :
         LET handle == Ctx.current_handle
             c1 == Advance(new_handle(Ctx),
                           4 + (IF interfaces = <<>> THEN 0
                                ELSE 2 + Len(interfaces[1])))
             id == NewId(c1)
             c2 == Alloc(c1, [JavaClassDesc("PROXYCLASS") EXCEPT
                                 !.handle = handle,
                                 !.interfaces = interfaces])
         IN Step(Did(c2, "classdesc_bean", handle, id),
                 CallAnnotations([Top EXCEPT !.pc = "annotations",
                                             !.h = handle, !.ep = epoch,
                                             !.n = id],
                                 0),
                 nrec)

\* _do_classdesc, lines 408-409 and 439-440: the annotations are stored
\* and the super class descriptor is read
DoClassDesc_Annotations ==
    /\ Running("do_classdesc", "annotations")
    /\ \E tc \in Tags :
         Step(Did([Advance(Ctx, 1) EXCEPT
                      !.heap[Top.n].annotations = ret.v],
                  "tag", 0, 0),
              CallClassDesc("super", tc),
              nrec + Count(tc))

\* _do_classdesc, lines 409-416 and 440-447: the super class is stored
\* and the descriptor is registered
DoClassDesc_Finish ==
    /\ Running("do_classdesc", "super")
    /\ LET sup == IF IsRef(ret) THEN ret.v ELSE 0
           c1 == [Ctx EXCEPT !.heap[Top.n].super_class = sup]
           c2 == IF sup # 0
                 THEN [c1 EXCEPT !.heap[sup].is_super_class = TRUE]
                 ELSE c1
           c3 == set_handle(c2, Top.h, Top.n)
       IN IF c3.raised # "" THEN Step(c3, stack, nrec)
          ELSE Return(Did([c3 EXCEPT !.ret = Ref(Top.n)],
                          "classdesc", Top.h, Top.n))

\* ------------------------------------------------ _read_class_annotations
\* line 478: the end of the annotation stream
ReadClassAnnotations_End ==
    /\ Running("read_class_annotations", "next")
    /\ Return(Did([Advance(Ctx, 1) EXCEPT
                      !.ret = [t |-> "list", v |-> Top.acc]],
                  "annotations", 0, 0))

\* A reset inside the annotation stream whose tag is left in the stream
ReadClassAnnotations_Reset_unread ==
    /\ Running("read_class_annotations", "next")
    /\ CanReset
    /\ Step(Did(reset(Ctx), "reset", 0, 0), stack, nrec)

\* lines 481-484: a reset inside the annotation stream
ReadClassAnnotations_Reset ==
    /\ Running("read_class_annotations", "next")
    /\ CanReset
    /\ Step(Did(reset(Advance(Ctx, 1)), "reset", 0, 0), stack, nrec)

\* lines 477 and 486: any other tag is a content
ReadClassAnnotations_Read ==
    /\ Running("read_class_annotations", "next")
    /\ Len(Top.acc) < MaxItems
    /\ \E tc \in AnnotationTags :
         Step(Did(Advance(Ctx, 1), "tag", 0, 0),
              Append(SetTop(stack, [Top EXCEPT !.pc = "got"]),
                     [Frame("read_content", "start") EXCEPT
                         !.tc = tc, !.bd = TRUE, !.cd = Top.cd]),
              nrec + AnnotationWeight(tc))

\* lines 488-492: the content is kept, or the exception it is unwinds
ReadClassAnnotations_Got ==
    /\ Running("read_class_annotations", "got")
    /\ IF IsRef(ret) /\ heap[ret.v].is_exception
       THEN RaiseExceptionRead(Ctx, ret.v)
       ELSE Step(Did(Ctx, "annotation", 0, 0),
                 SetTop(stack, [Top EXCEPT !.pc = "next",
                                           !.acc = Append(@, ret)]),
                 nrec)

\* ----------------------------------------------------- _read_field_value
\* What the stream holds for a value of type t: a primitive, or a tag and,
\* for a reference read in place, its handle
FieldInput(t) ==
    IF t \in PrimitiveChars
    THEN {[tc |-> 0, v |-> x, h |-> 0] : x \in PrimValues}
    ELSE {[tc |-> x, v |-> 0, h |-> 0] : x \in Tags}
         \cup (IF t = "["
               THEN {[tc |-> TC_REFERENCE, v |-> 0, h |-> y] :
                        y \in RefHandles}
               ELSE {})

\* _read_field_value up to its call of _read_content: "call" tells that
\* the call is made (with inp.tc), otherwise c.ret is the value
read_field_value(c, t, inp) ==
    IF t \in PrimitiveChars
    THEN [c |-> Did([Advance(c, PrimWidth(t)) EXCEPT !.ret = Prim(inp.v)],
                    "field", 0, 0),
          call |-> FALSE]
    ELSE LET c1 == Advance(c, 1)
         IN IF t = "[" /\ inp.tc = TC_NULL
            THEN [c |-> Did([c1 EXCEPT !.ret = Null], "field", 0, 0),
                  call |-> FALSE]
            ELSE IF t = "[" /\ inp.tc = TC_REFERENCE
            THEN [c |-> classdesc_reference(c1, inp.h), call |-> FALSE]
            ELSE IF t = "[" /\ inp.tc # TC_ARRAY
            THEN [c |-> Raise(c1, "InvalidArrayTypeCode"), call |-> FALSE]
            ELSE [c |-> Did(c1, "tag", 0, 0), call |-> TRUE]

\* -------------------------------------------------------------- _do_object
\* line 519: the class descriptor is read
DoObject_Start ==
    /\ Running("do_object", "start")
    /\ \E tc \in Tags :
         Step(Did(Advance(Ctx, 1), "tag", 0, 0),
              CallClassDesc("classdesc", tc), nrec + Count(tc))

\* _do_object reading the class data before the instance is registered
DoObject_Body_unregistered ==
    /\ Running("do_object", "classdesc")
    /\ LET handle == Ctx.current_handle
           c1 == new_handle(Ctx)
       IN IF ~IsRef(ret)
          THEN Step(Raise(c1, "AttributeError"), stack, nrec)
          ELSE LET class_desc == ret.v
                   id == NewId(c1)
                   c2 == Alloc(c1, [create_instance(heap, class_desc) EXCEPT
                                       !.classdesc = class_desc,
                                       !.handle = handle])
               IN Step(Did(c2, "instance", handle, id),
                       Append(SetTop(stack, [Top EXCEPT !.pc = "class_data",
                                                        !.h = handle,
                                                        !.ep = epoch,
                                                        !.n = id]),
                              [Frame("read_class_data", "class") EXCEPT
                                  !.n = id,
                                  !.lst = get_hierarchy(heap, class_desc),
                                  !.i = 1]),
                       nrec)

\* lines 521-536: new handle, instance, registration, then the class data
DoObject_Body ==
    /\ Running("do_object", "classdesc")
    /\ LET handle == Ctx.current_handle
           c1 == new_handle(Ctx)
       IN IF ~IsRef(ret)
          THEN Step(Raise(c1, "AttributeError"), stack, nrec)
          ELSE LET class_desc == ret.v
                   id == NewId(c1)
                   c2 == Alloc(c1, [create_instance(heap, class_desc) EXCEPT
                                       !.classdesc = class_desc,
                                       !.handle = handle])
                   c3 == set_handle(c2, handle, id)
               IN Step(Did(c3, "instance", handle, id),
                       Append(SetTop(stack, [Top EXCEPT !.pc = "class_data",
                                                        !.h = handle,
                                                        !.ep = epoch,
                                                        !.n = id]),
                              [Frame("read_class_data", "class") EXCEPT
                                  !.n = id,
                                  !.lst = get_hierarchy(heap, class_desc),
                                  !.i = 1]),
                       nrec)

\* lines 537-538
DoObject_Return ==
    /\ Running("do_object", "class_data")
    /\ Return(Did([Ctx EXCEPT !.ret = Ref(Top.n)], "object", Top.h, Top.n))

\* --------------------------------------------------------- _read_class_data
\* JavaInstance.load_from_blockdata: the base class refuses
load_from_blockdata(instance) == FALSE

\* _read_class_data reading the fields of every class with a write method
ReadClassData_Class_by_fields ==
    /\ Running("read_class_data", "class")
    /\ Top.i <= Len(Top.lst)
    /\ LET cd == Top.lst[Top.i]
           dt == data_type(heap[cd].desc_flags)
       IN IF ~validate(heap[cd])
          THEN Step(Raise(Ctx, "InvalidClassDesc"), stack, nrec)
          ELSE IF dt = "raise"
          THEN Step(Raise(Ctx, "UnhandledClassDataType"), stack, nrec)
          ELSE IF dt \in {"NOWRCLASS", "WRCLASS"}
          THEN Step(Did(Ctx, "class_level", 0, cd),
                    SetTop(stack, [Top EXCEPT !.pc = "field",
                                              !.start = pos,
                                              !.k = 1,
                                              !.vals = <<>>]),
                    nrec)
          ELSE IF dt = "OBJECT_ANNOTATION" /\ ~load_from_blockdata(heap[Top.n])
          THEN Step(Raise(Ctx, "UnhandledExternal"), stack, nrec)
          ELSE Step(Did(Ctx, "class_level", 0, cd),
                    CallAnnotations([Top EXCEPT !.pc = "ann_got",
                                                !.start = pos], cd),
                    nrec)

\* lines 567-595: the next class of the hierarchy; start is history, the
\* cursor as the iteration begins
ReadClassData_Class ==
    /\ Running("read_class_data", "class")
    /\ Top.i <= Len(Top.lst)
    /\ LET cd == Top.lst[Top.i]
           dt == data_type(heap[cd].desc_flags)
       IN IF ~validate(heap[cd])
          THEN Step(Raise(Ctx, "InvalidClassDesc"), stack, nrec)
          ELSE IF dt = "raise"
          THEN Step(Raise(Ctx, "UnhandledClassDataType"), stack, nrec)
          ELSE IF dt \in {"NOWRCLASS", "WRCLASS"}
          THEN IF dt = "WRCLASS" /\ heap[Top.n].is_external_instance
               THEN Step(Did(Ctx, "class_level", 0, cd),
                         CallAnnotations([Top EXCEPT !.pc = "ann_got",
                                                     !.start = pos], cd),
                         nrec)
               ELSE Step(Did(Ctx, "class_level", 0, cd),
                         SetTop(stack, [Top EXCEPT !.pc = "field",
                                                   !.start = pos,
                                                   !.k = 1,
                                                   !.vals = <<>>]),
                         nrec)
          ELSE IF dt = "OBJECT_ANNOTATION" /\ ~load_from_blockdata(heap[Top.n])
          THEN Step(Raise(Ctx, "UnhandledExternal"), stack, nrec)
          ELSE Step(Did(Ctx, "class_level", 0, cd),
                    CallAnnotations([Top EXCEPT !.pc = "ann_got",
                                                !.start = pos], cd),
                    nrec)

\* _read_class_data putting a value read in place before the values of
\* the fields declared earlier
ReadClassData_Field_prepending ==
    /\ Running("read_class_data", "field")
    /\ Top.k <= Len(heap[Top.lst[Top.i]].fields)
    /\ \E inp \in FieldInput(heap[Top.lst[Top.i]].fields[Top.k].type) :
         LET r == read_field_value(Ctx,
                      heap[Top.lst[Top.i]].fields[Top.k].type, inp)
         IN IF r.call
            THEN Step(r.c,
                      Append(SetTop(stack, [Top EXCEPT !.pc = "field_got"]),
                             [Frame("read_content", "start") EXCEPT
                                 !.tc = inp.tc, !.bd = FALSE]),
                      nrec + Count(inp.tc))
            ELSE Step(r.c,
                      SetTop(stack, [Top EXCEPT !.vals = <<r.c.ret>> \o @,
                                                !.k = @ + 1]),
                      nrec)

\* line 581: the value of the next declared field
ReadClassData_Field ==
    /\ Running("read_class_data", "field")
    /\ Top.k <= Len(heap[Top.lst[Top.i]].fields)
    /\ \E inp \in FieldInput(heap[Top.lst[Top.i]].fields[Top.k].type) :
         LET r == read_field_value(Ctx,
                      heap[Top.lst[Top.i]].fields[Top.k].type, inp)
         IN IF r.call
            THEN Step(r.c,
                      Append(SetTop(stack, [Top EXCEPT !.pc = "field_got"]),
                             [Frame("read_content", "start") EXCEPT
                                 !.tc = inp.tc, !.bd = FALSE]),
                      nrec + Count(inp.tc))
            ELSE Step(r.c,
                      SetTop(stack, [Top EXCEPT !.vals = Append(@, r.c.ret),
                                                !.k = @ + 1]),
                      nrec)

\* _read_field_value, lines 638-642, and the store of line 581
ReadClassData_FieldGot ==
    /\ Running("read_class_data", "field_got")
    /\ IF IsRef(ret) /\ heap[ret.v].is_exception
       THEN RaiseExceptionRead(Ctx, ret.v)
       ELSE Step(Did(Ctx, "field_stored", 0, Top.n),
                 SetTop(stack, [Top EXCEPT !.pc = "field",
                                           !.vals = Append(@, ret),
                                           !.k = @ + 1]),
                 nrec)

\* _read_class_data keeping the values of a class before those of its
\* super classes
ReadClassData_FieldsDone_first ==
    /\ Running("read_class_data", "field")
    /\ Top.k > Len(heap[Top.lst[Top.i]].fields)
    /\ LET cd == Top.lst[Top.i]
           f == [Top EXCEPT !.acc = <<[cd |-> cd, values |-> Top.vals]>> \o @]
       IN IF data_type(heap[cd].desc_flags) = "WRCLASS"
          THEN Step(Did(Ctx, "fields", 0, cd),
                    CallAnnotations([f EXCEPT !.pc = "ann_got"], cd), nrec)
          ELSE Step(Did(Ctx, "fields", 0, cd),
                    SetTop(stack, [f EXCEPT !.pc = "class", !.i = @ + 1]),
                    nrec)

\* lines 582-585: the values of the class are kept; a class with a write
\* method is followed by its annotations
ReadClassData_FieldsDone ==
    /\ Running("read_class_data", "field")
    /\ Top.k > Len(heap[Top.lst[Top.i]].fields)
    /\ LET cd == Top.lst[Top.i]
           f == [Top EXCEPT !.acc = Append(@, [cd |-> cd, values |-> Top.vals])]
       IN IF data_type(heap[cd].desc_flags) = "WRCLASS"
          THEN Step(Did(Ctx, "fields", 0, cd),
                    CallAnnotations([f EXCEPT !.pc = "ann_got"], cd), nrec)
          ELSE Step(Did(Ctx, "fields", 0, cd),
                    SetTop(stack, [f EXCEPT !.pc = "class", !.i = @ + 1]),
                    nrec)

\* lines 578, 585 and 595: the annotations of the class are kept
ReadClassData_AnnGot ==
    /\ Running("read_class_data", "ann_got")
    /\ Step(Did(Ctx, "class_annotations", 0, Top.lst[Top.i]),
            SetTop(stack, [Top EXCEPT
                !.pc = "class",
                !.ann = Append(@, [cd |-> Top.lst[Top.i], list |-> ret.v]),
                !.i = @ + 1]),
            nrec)

\* lines 597-602: the instance is filled; JavaInstance.load_from_instance
\* changes nothing
ReadClassData_Finish ==
    /\ Running("read_class_data", "class")
    /\ Top.i > Len(Top.lst)
    /\ Return(Did([Ctx EXCEPT !.heap[Top.n].annotations = Top.ann,
                              !.heap[Top.n].field_data = Top.acc,
                              !.heap[Top.n].loaded = TRUE,
                              !.ret = Null],
                  "class_data", 0, Top.n))

\* ---------------------------------------------------------------- _do_enum
\* line 662
DoEnum_Start ==
    /\ Running("do_enum", "start")
    /\ \E tc \in Tags :
         Step(Did(Advance(Ctx, 1), "tag", 0, 0),
              CallClassDesc("classdesc", tc), nrec + Count(tc))

\* lines 663-670: new handle, then the string of the constant
DoEnum_Body ==
    /\ Running("do_enum", "classdesc")
    /\ IF ~IsRef(ret)
       THEN Step(Raise(Ctx, "NullEnumDescription"), stack, nrec)
       ELSE \E tc \in Tags :
              Step(Did(Advance(new_handle(Ctx), 1), "enum_header",
                       Ctx.current_handle, 0),
                   Append(SetTop(stack, [Top EXCEPT !.pc = "string",
                                                    !.cd = ret.v,
                                                    !.h = Ctx.current_handle,
                                                    !.ep = epoch]),
                          [Frame("read_new_string", "start") EXCEPT
                              !.tc = tc]),
                   nrec + Count(tc))

\* _do_enum registering the constant string under the handle of the enum
DoEnum_Finish_constant ==
    /\ Running("do_enum", "string")
    /\ LET c1 == [Ctx EXCEPT !.heap[Top.cd].enum_constants =
                      @ \cup {heap[ret.v].value}]
           id == NewId(c1)
           c2 == Alloc(c1, JavaEnum(Top.h, Top.cd, ret.v))
           c3 == set_handle(c2, Top.h, ret.v)
       IN IF c3.raised # "" THEN Step(c3, stack, nrec)
          ELSE Return(Did([c3 EXCEPT !.ret = Ref(id)], "enum", Top.h, id))

\* lines 671-676: the constant is added to the class, the enum is built
\* and registered
DoEnum_Finish ==
    /\ Running("do_enum", "string")
    /\ LET c1 == [Ctx EXCEPT !.heap[Top.cd].enum_constants =
                      @ \cup {heap[ret.v].value}]
           id == NewId(c1)
           c2 == Alloc(c1, JavaEnum(Top.h, Top.cd, ret.v))
           c3 == set_handle(c2, Top.h, id)
       IN IF c3.raised # "" THEN Step(c3, stack, nrec)
          ELSE Return(Did([c3 EXCEPT !.ret = Ref(id)], "enum", Top.h, id))

\* --------------------------------------------------------------- _do_class
\* line 683
DoClass_Start ==
    /\ Running("do_class", "start")
    /\ \E tc \in Tags :
         Step(Did(Advance(Ctx, 1), "tag", 0, 0),
              CallClassDesc("classdesc", tc), nrec + Count(tc))

\* lines 684-689
DoClass_Body ==
    /\ Running("do_class", "classdesc")
    /\ LET handle == Ctx.current_handle
           c1 == new_handle(Ctx)
           id == NewId(c1)
           c2 == Alloc(c1, JavaClass(handle, IF IsRef(ret) THEN ret.v ELSE 0))
           c3 == set_handle(c2, handle, id)
       IN IF c3.raised # "" THEN Step(c3, stack, nrec)
          ELSE Return(Did([c3 EXCEPT !.ret = Ref(id)], "class", handle, id))

\* --------------------------------------------------------------- _do_array
\* Array sizes in the stream
ArraySizes == {-1} \cup (0 .. MaxItems)

\* line 696
DoArray_Start ==
    /\ Running("do_array", "start")
    /\ \E tc \in Tags :
         Step(Did(Advance(Ctx, 1), "tag", 0, 0),
              CallClassDesc("classdesc", tc), nrec + Count(tc))

\* lines 697-708: new handle, element type and size.  No transformer of
\* the list loads the array (api.py, load_array returns None)
DoArray_Body ==
    /\ Running("do_array", "classdesc")
    /\ LET handle == Ctx.current_handle
           c1 == new_handle(Ctx)
       IN IF ~IsRef(ret)
          THEN Step(Raise(c1, "AttributeError"), stack, nrec)
          ELSE IF Len(heap[ret.v].name) < 2
          THEN Step(Raise(c1, "InvalidArrayName"), stack, nrec)
          ELSE IF heap[ret.v].name[2] \notin FieldTypeChars
          THEN Step(Raise(c1, "InvalidFieldType"), stack, nrec)
          ELSE \E size \in ArraySizes :
                 IF size < 0
                 THEN Step(Raise(Advance(c1, 4), "InvalidArraySize"),
                           stack, nrec)
                 ELSE Step(Did(Advance(c1, 4), "array_header", handle, 0),
                           SetTop(stack, [Top EXCEPT !.pc = "elem",
                                                     !.cd = ret.v,
                                                     !.h = handle,
                                                     !.ep = epoch,
                                                     !.k = size,
                                                     !.vals = <<>>]),
                           nrec)

\* line 718: the next element
DoArray_Elem ==
    /\ Running("do_array", "elem")
    /\ Len(Top.vals) < Top.k
    /\ \E inp \in FieldInput(heap[Top.cd].name[2]) :
         LET r == read_field_value(Ctx, heap[Top.cd].name[2], inp)
         IN IF r.call
            THEN Step(r.c,
                      Append(SetTop(stack, [Top EXCEPT !.pc = "elem_got"]),
                             [Frame("read_content", "start") EXCEPT
                                 !.tc = inp.tc, !.bd = FALSE]),
                      nrec + Count(inp.tc))
            ELSE Step(r.c,
                      SetTop(stack, [Top EXCEPT !.vals = Append(@, r.c.ret)]),
                      nrec)

\* _read_field_value, lines 638-642, for an element
DoArray_ElemGot ==
    /\ Running("do_array", "elem_got")
    /\ IF IsRef(ret) /\ heap[ret.v].is_exception
       THEN RaiseExceptionRead(Ctx, ret.v)
       ELSE Step(Did(Ctx, "element", 0, 0),
                 SetTop(stack, [Top EXCEPT !.pc = "elem",
                                           !.vals = Append(@, ret)]),
                 nrec)

\* line 720: the array is built and returned
DoArray_Finish ==
    /\ Running("do_array", "elem")
    /\ Len(Top.vals) = Top.k
    /\ LET id == NewId(Ctx)
           c1 == Alloc(Ctx, JavaArray(Top.h, Top.cd, heap[Top.cd].name[2],
                                      Top.vals))
       IN Return(Did([c1 EXCEPT !.ret = Ref(id)], "array", Top.h, id))

\* ----------------------------------------------------------- _do_exception
\* lines 728-734
DoException_Start ==
    /\ Running("do_exception", "start")
    /\ \E tc \in Tags :
         LET c1 == Advance(reset(Ctx), 1)
         IN IF tc = TC_RESET
            THEN Step(Raise(c1, "ResetInException"), stack, nrec)
            ELSE Step(Did(c1, "reset", 0, 0),
                      Append(SetTop(stack, [Top EXCEPT !.pc = "got"]),
                             [Frame("read_content", "start") EXCEPT
                                 !.tc = tc, !.bd = FALSE]),
                      nrec + Count(tc))

\* lines 735-747
DoException_Body ==
    /\ Running("do_exception", "got")
    /\ IF ~IsRef(ret)
       THEN Step(Raise(Ctx, "NullException"), stack, nrec)
       ELSE IF heap[ret.v].type # "instance"
       THEN Step(Raise(Ctx, "ExceptionNotInstance"), stack, nrec)
       ELSE IF heap[ret.v].is_exception
       THEN RaiseExceptionRead(Ctx, ret.v)
       ELSE Return(Did(reset([Ctx EXCEPT !.heap[ret.v].is_exception = TRUE]),
                       "reset", 0, ret.v))

\* ------------------------------------------------------------ end of input
Eof ==
    /\ status = "running"
    /\ Len(stack) > 0
    /\ ReadsNext
    /\ Step(Raise(Ctx, "EOFError"), stack, nrec)

\* ------------------------------------------------------- the specification
Next ==
    \/ Run_Header \/ Run_End \/ Run_Reset \/ Run_Read \/ Run_Append \/ Load
    \/ ReadContent \/ DoNull \/ DoReference \/ ReadNewString \/ DoBlockData
    \/ DoClassDesc_Null \/ DoClassDesc_Reference \/ DoClassDesc_Invalid
    \/ DoClassDesc_Header \/ DoClassDesc_Field \/ DoClassDesc_Bean
    \/ DoClassDesc_Proxy \/ DoClassDesc_Annotations \/ DoClassDesc_Finish
    \/ ReadClassAnnotations_End \/ ReadClassAnnotations_Reset
    \/ ReadClassAnnotations_Read \/ ReadClassAnnotations_Got
    \/ DoObject_Start \/ DoObject_Body \/ DoObject_Return
    \/ ReadClassData_Class \/ ReadClassData_Field \/ ReadClassData_FieldGot
    \/ ReadClassData_FieldsDone \/ ReadClassData_AnnGot
    \/ ReadClassData_Finish
    \/ DoEnum_Start \/ DoEnum_Body \/ DoEnum_Finish
    \/ DoClass_Start \/ DoClass_Body
    \/ DoArray_Start \/ DoArray_Body \/ DoArray_Elem \/ DoArray_ElemGot
    \/ DoArray_Finish
    \/ DoException_Start \/ DoException_Body
    \/ Eof

Spec == Init /\ [][Next]_vars

\* ------------------------------------------------ the list of transformers
\* Transformers a caller gives to load()
MaxCallers == 2
CallerLists ==
    UNION {[1 .. n -> {"user", "other", "default"}] : n \in 0 .. MaxCallers}

\* load(), main.py 47-57: the list given to the parser
all_transformers(callers, use_numpy_arrays) ==
    LET with_default ==
            IF \E j \in 1 .. Len(callers) : callers[j] = "default"
            THEN callers ELSE Append(callers, "default")
    IN IF use_numpy_arrays THEN Append(with_default, "numpy")
       ELSE with_default

\* Names of the classes an instance is made for
CreatedClasses ==
    { <<"A">>, <<"B">>, <<"C">>,
      <<"j","a","v","a",".","u","t","i","l",".","H","a","s","h","M","a","p">> }

\* load() has built the list for a new parser
InitCreate ==
    /\ InitParser
    /\ \E callers \in CallerLists, use_numpy_arrays \in BOOLEAN :
         /\ transformers = all_transformers(callers, use_numpy_arrays)
         /\ call = [fn |-> "load", callers |-> callers,
                    use_numpy_arrays |-> use_numpy_arrays]

\* _create_instance is called for a class descriptor of the given name
CreateInstanceOf ==
    /\ call.fn = "load"
    /\ \E name \in CreatedClasses :
         LET H == <<[JavaClassDesc("NORMALCLASS") EXCEPT !.name = name]>>
         IN call' = [fn |-> "create_instance",
                     callers |-> call.callers,
                     use_numpy_arrays |-> call.use_numpy_arrays,
                     name |-> name,
                     instance |-> create_instance(H, 1)]
    /\ UNCHANGED <<pos, handles, handle_maps, current_handle, heap, stack,
                   ret, contents, status, err, transformers, epoch, reglog,
                   ev, nrec, probe, eof>>

SpecCreate == InitCreate /\ [][CreateInstanceOf]_vars

\* ------------------------------------------------------ JavaMap (a dict)
\* Length of an annotation list
MaxAnnotations == 5
\* The contents of an annotation list: strings, equal when their values
\* are, and a JavaList, which is a Python list
AnnotationValues ==
    {[kind |-> "string", v |-> x] : x \in {1, 2}}
    \cup {[kind |-> "list", v |-> 0]}
AnnotationLists ==
    UNION {[1 .. n -> AnnotationValues] : n \in 0 .. MaxAnnotations}

\* hash(x) returns: a class that inherits list has no __hash__
hashable(x) == x.kind # "list"

\* dict.__setitem__ on a dict kept as the sequence of its items in
\* insertion order: the value of a key that is there is replaced in place
dict_setitem(d, key, value) ==
    IF \E j \in 1 .. Len(d) : d[j].key = key
    THEN [j \in 1 .. Len(d) |->
             IF d[j].key = key THEN [key |-> key, value |-> value] ELSE d[j]]
    ELSE Append(d, [key |-> key, value |-> value])

\* The loop of JavaMap.load_from_instance over zip(*[iter(a[1:])] * 2),
\* from the element at place i of the list (places count from 1)
RECURSIVE group_by_two(_, _, _)
group_by_two(d, a, i) ==
    IF i + 1 > Len(a)
    THEN [map |-> d, raised |-> ""]
    ELSE IF ~hashable(a[i])
    THEN [map |-> d, raised |-> "TypeError"]
    ELSE group_by_two(dict_setitem(d, a[i], a[i + 1]), a, i + 2)

\* JavaMap.load_from_instance for an instance whose only annotation list
\* is that of the class of the given name
JavaMap_load_from_instance(name, annotations) ==
    IF name \in JavaMap_HANDLED_CLASSES
    THEN LET r == group_by_two(<<>>, annotations, 2)
         IN [map |-> r.map, raised |-> r.raised, result |-> r.raised = ""]
    ELSE [map |-> <<>>, raised |-> "", result |-> FALSE]

\* An instance has been parsed with the annotation list of its class
InitMap ==
    /\ InitParser
    /\ transformers = <<"default">>
    /\ \E name \in JavaMap_HANDLED_CLASSES \cup { <<"A">> },
          annotations \in AnnotationLists :
         call = [fn |-> "annotations", name |-> name,
                 annotations |-> annotations]

LoadFromInstance ==
    /\ call.fn = "annotations"
    /\ call' = [fn |-> "load_from_instance", name |-> call.name,
                annotations |-> call.annotations,
                out |-> JavaMap_load_from_instance(call.name,
                                                   call.annotations)]
    /\ UNCHANGED <<pos, handles, handle_maps, current_handle, heap, stack,
                   ret, contents, status, err, transformers, epoch, reglog,
                   ev, nrec, probe, eof>>

SpecMap == InitMap /\ [][LoadFromInstance]_vars

\* ------------------------------------------------ java.time (LOCAL_TIME)
\* Length of the data handed to a java.time decoder
MaxPayload == 7
\* The bytes of the data
PayloadBytes == {0, 5, 128, 255}
PayloadData ==
    UNION {[1 .. n -> PayloadBytes] : n \in 0 .. MaxPayload}

\* struct.unpack(">b", ...) of one byte
unpack_b(b) == IF b >= 128 THEN b - 256 ELSE b
\* struct.unpack(">i", ...) of four bytes
unpack_i(b) == unpack_b(b[1]) * 16777216 + b[2] * 65536 + b[3] * 256 + b[4]

\* read_struct(data, fmt): unpack raises when data[:size] is short
read_struct(data, size) ==
    IF Len(data) < size
    THEN [raised |-> "struct.error", bytes |-> <<>>, data |-> data]
    ELSE [raised |-> "", bytes |-> SubSeq(data, 1, size),
          data |-> SubSeq(data, size + 1, Len(data))]

\* The fields a decoder assigns and the data it returns
Time(hour, minute, second, nano, data) ==
    [raised |-> "", hour |-> hour, minute |-> minute, second |-> second,
     nano |-> nano, data |-> data]
TimeError(r) ==
    [raised |-> r.raised, hour |-> "None", minute |-> "None",
     second |-> "None", nano |-> "None", data |-> r.data]

\* The mutation of do_local_time that negates a negative byte
do_local_time_negating(data) ==
    LET h == read_struct(data, 1) IN
    IF h.raised # "" THEN TimeError(h)
    ELSE IF unpack_b(h.bytes[1]) < 0
    THEN Time(-unpack_b(h.bytes[1]), 0, 0, 0, h.data)
    ELSE
    LET m == read_struct(h.data, 1) IN
    IF m.raised # "" THEN TimeError(m)
    ELSE IF unpack_b(m.bytes[1]) < 0
    THEN Time(unpack_b(h.bytes[1]), -unpack_b(m.bytes[1]), 0, 0, m.data)
    ELSE
    LET sec == read_struct(m.data, 1) IN
    IF sec.raised # "" THEN TimeError(sec)
    ELSE IF unpack_b(sec.bytes[1]) < 0
    THEN Time(unpack_b(h.bytes[1]), unpack_b(m.bytes[1]),
              -unpack_b(sec.bytes[1]), 0, sec.data)
    ELSE
    LET n == read_struct(sec.data, 4) IN
    IF n.raised # "" THEN TimeError(n)
    ELSE Time(unpack_b(h.bytes[1]), unpack_b(m.bytes[1]),
              unpack_b(sec.bytes[1]), unpack_i(n.bytes), n.data)

\* do_local_time: ~x is -x - 1
do_local_time(data) ==
    LET h == read_struct(data, 1) IN
    IF h.raised # "" THEN TimeError(h)
    ELSE IF unpack_b(h.bytes[1]) < 0
    THEN Time(-unpack_b(h.bytes[1]) - 1, 0, 0, 0, h.data)
    ELSE
    LET m == read_struct(h.data, 1) IN
    IF m.raised # "" THEN TimeError(m)
    ELSE IF unpack_b(m.bytes[1]) < 0
    THEN Time(unpack_b(h.bytes[1]), -unpack_b(m.bytes[1]) - 1, 0, 0, m.data)
    ELSE
    LET sec == read_struct(m.data, 1) IN
    IF sec.raised # "" THEN TimeError(sec)
    ELSE IF unpack_b(sec.bytes[1]) < 0
    THEN Time(unpack_b(h.bytes[1]), unpack_b(m.bytes[1]),
              -unpack_b(sec.bytes[1]) - 1, 0, sec.data)
    ELSE
    LET n == read_struct(sec.data, 4) IN
    IF n.raised # "" THEN TimeError(n)
    ELSE Time(unpack_b(h.bytes[1]), unpack_b(m.bytes[1]),
              unpack_b(sec.bytes[1]), unpack_i(n.bytes), n.data)

\* The block data of a java.time.Ser of type LOCAL_TIME, after its type
InitTime ==
    /\ InitParser
    /\ transformers = <<"default">>
    /\ \E data \in PayloadData : call = [fn |-> "data", data |-> data]

DoLocalTime ==
    /\ call.fn = "data"
    /\ call' = [fn |-> "do_local_time", data |-> call.data,
                out |-> do_local_time(call.data)]
    /\ UNCHANGED <<pos, handles, handle_maps, current_handle, heap, stack,
                   ret, contents, status, err, transformers, epoch, reglog,
                   ev, nrec, probe, eof>>

SpecTime == InitTime /\ [][DoLocalTime]_vars

\* --------------------------------------------------------- two parsers
\* The attributes of the running JavaStreamParser, with its history
Private ==
    [pos |-> pos, handles |-> handles, handle_maps |-> handle_maps,
     current_handle |-> current_handle, heap |-> heap, stack |-> stack,
     ret |-> ret, contents |-> contents, status |-> status, err |-> err,
     epoch |-> epoch, reglog |-> reglog, ev |-> ev, nrec |-> nrec,
     eof |-> eof]

\* Two parsers are constructed on two streams with one list of
\* transformers, that holds one DefaultObjectTransformer; the variables
\* of the parser are those of the running one, and "other" keeps those of
\* the parser that waits
InitTwo ==
    /\ InitParser
    /\ transformers = <<"default">>
    /\ call = [fn |-> "two", running |-> 1, other |-> Private]

\* The parsers taking turns with one handle counter for the two
Switch_one_counter ==
    /\ call.fn = "two"
    /\ call' = [call EXCEPT !.running = 3 - @, !.other = Private]
    /\ pos' = call.other.pos
    /\ handles' = call.other.handles
    /\ handle_maps' = call.other.handle_maps
    /\ current_handle' = current_handle
    /\ heap' = call.other.heap
    /\ stack' = call.other.stack
    /\ ret' = call.other.ret
    /\ contents' = call.other.contents
    /\ status' = call.other.status
    /\ err' = call.other.err
    /\ epoch' = call.other.epoch
    /\ reglog' = call.other.reglog
    /\ ev' = call.other.ev
    /\ nrec' = call.other.nrec
    /\ eof' = call.other.eof
    /\ UNCHANGED <<transformers, probe>>

\* The parser that waits takes over, the attributes of each being its own
Switch ==
    /\ call.fn = "two"
    /\ call' = [call EXCEPT !.running = 3 - @, !.other = Private]
    /\ pos' = call.other.pos
    /\ handles' = call.other.handles
    /\ handle_maps' = call.other.handle_maps
    /\ current_handle' = call.other.current_handle
    /\ heap' = call.other.heap
    /\ stack' = call.other.stack
    /\ ret' = call.other.ret
    /\ contents' = call.other.contents
    /\ status' = call.other.status
    /\ err' = call.other.err
    /\ epoch' = call.other.epoch
    /\ reglog' = call.other.reglog
    /\ ev' = call.other.ev
    /\ nrec' = call.other.nrec
    /\ eof' = call.other.eof
    /\ UNCHANGED <<transformers, probe>>

\* The steps of the running parser on a stream of the tags TwoCodes
NextTwo ==
    \/ Switch
    \/ Run_Header \/ Run_End \/ Run_Reset \/ Run_Read \/ Run_Append \/ Load
    \/ ReadContent \/ DoNull \/ DoReference \/ ReadNewString
    \/ DoClassDesc_Null \/ DoClassDesc_Reference \/ DoClassDesc_Invalid
    \/ DoClassDesc_Header \/ DoClassDesc_Field \/ DoClassDesc_Bean
    \/ DoClassDesc_Annotations \/ DoClassDesc_Finish
    \/ ReadClassAnnotations_End \/ ReadClassAnnotations_Reset
    \/ ReadClassAnnotations_Read \/ ReadClassAnnotations_Got
    \/ DoObject_Start \/ DoObject_Body \/ DoObject_Return
    \/ ReadClassData_Class \/ ReadClassData_FieldsDone
    \/ ReadClassData_Finish
    \/ Eof

SpecTwo == InitTwo /\ [][NextTwo]_vars

\* ------------------------------------------- the v1 API on block data
\* StreamConstants
STREAM_MAGIC == 44269              \* 0xACED
STREAM_VERSION == 5
\* Length of the payload of a block-data record
MaxBlock == 258
\* The bytes of a payload of n bytes: one byte repeated, or bytes that
\* go up from it
BlockPayloads(n) ==
    {[i \in 1 .. n |-> b] : b \in {65, 255}}
    \cup {[i \in 1 .. n |-> (b + i) % 256] : b \in {0, 200}}

\* struct.pack of an unsigned number on one, two and four bytes
pack_B(n) ==
    IF n \in 0 .. 255
    THEN [raised |-> "", bytes |-> <<n>>]
    ELSE [raised |-> "struct.error", bytes |-> <<>>]
pack_H(n) == <<n \div 256, n % 256>>
pack_I(n) ==
    <<n \div 16777216, (n \div 65536) % 256, (n \div 256) % 256, n % 256>>
\* struct.unpack of an unsigned number of two and four bytes
unpack_H(b) == b[1] * 256 + b[2]
unpack_I_unsigned(b) == b[1] * 16777216 + b[2] * 65536 + b[3] * 256 + b[4]

\* JavaObjectMarshaller._writeStreamHeader
writeStreamHeader == pack_H(STREAM_MAGIC) \o pack_H(STREAM_VERSION)

\* JavaObjectMarshaller.write_blockdata of a str: its characters are
\* encoded as latin-1, one byte for each
write_blockdata(obj) ==
    LET length == Len(obj)
    IN IF length <= 256
       THEN LET size == pack_B(length)
            IN IF size.raised # ""
               THEN [raised |-> size.raised, bytes |-> <<TC_BLOCKDATA>>]
               ELSE [raised |-> "",
                     bytes |-> <<TC_BLOCKDATA>> \o size.bytes \o obj]
       ELSE [raised |-> "",
             bytes |-> <<TC_BLOCKDATALONG>> \o pack_I(length) \o obj]

\* dumps() of a str: JavaObjectMarshaller.dump, writeObject
dumps(obj) ==
    LET r == write_blockdata(obj)
    IN [raised |-> r.raised,
        stream |-> IF r.raised # "" THEN <<>>
                   ELSE writeStreamHeader \o r.bytes]

\* JavaObjectUnmarshaller._readStruct of size bytes at offset at
readStruct(stream, at, size) ==
    IF at + size > Len(stream)
    THEN [raised |-> "RuntimeError", bytes |-> <<>>]
    ELSE [raised |-> "", bytes |-> SubSeq(stream, at + 1, at + size)]

\* do_blockdata and do_blockdata_long: the length on size bytes, then
\* object_stream.read(length) turned into a str by read_to_str
do_blockdata(stream, at, size) ==
    LET r == readStruct(stream, at, size)
    IN IF r.raised # "" THEN [raised |-> r.raised, obj |-> <<>>]
       ELSE LET length == IF size = 1 THEN r.bytes[1]
                          ELSE unpack_I_unsigned(r.bytes)
                last == IF at + size + length > Len(stream)
                        THEN Len(stream) ELSE at + size + length
            IN [raised |-> "",
                obj |-> SubSeq(stream, at + size + 1, last)]

\* loads() of a stream that holds a block-data record:
\* _readStreamHeader, then readObject and _read_and_exec_opcode
loads(stream) ==
    LET hd == readStruct(stream, 0, 4)
    IN IF hd.raised # "" THEN [raised |-> hd.raised, obj |-> <<>>]
       ELSE IF \/ unpack_H(SubSeq(hd.bytes, 1, 2)) # STREAM_MAGIC
               \/ unpack_H(SubSeq(hd.bytes, 3, 4)) # STREAM_VERSION
       THEN [raised |-> "IOError", obj |-> <<>>]
       ELSE LET op == readStruct(stream, 4, 1)
            IN IF op.raised # "" THEN [raised |-> op.raised, obj |-> <<>>]
               ELSE IF op.bytes[1] = TC_BLOCKDATA
               THEN do_blockdata(stream, 5, 1)
               ELSE IF op.bytes[1] = TC_BLOCKDATALONG
               THEN do_blockdata(stream, 5, 4)
               ELSE [raised |-> "RuntimeError", obj |-> <<>>]

\* The stream of the header and one block-data record in canonical form
CanonicalBlock(payload) ==
    writeStreamHeader
    \o (IF Len(payload) <= 255
        THEN <<TC_BLOCKDATA, Len(payload)>>
        ELSE <<TC_BLOCKDATALONG>> \o pack_I(Len(payload)))
    \o payload

InitBlock ==
    /\ InitParser
    /\ transformers = <<"default">>
    /\ \E n \in 0 .. MaxBlock :
         \E payload \in BlockPayloads(n) :
            call = [fn |-> "stream", n |-> n,
                    stream |-> CanonicalBlock(payload)]

\* dumps(loads(stream))
Marshalling ==
    /\ call.fn = "stream"
    /\ LET l == loads(call.stream)
       IN call' = [fn |-> "dumps", n |-> call.n, stream |-> call.stream,
                   loaded |-> l,
                   out |-> IF l.raised # ""
                           THEN [raised |-> l.raised, stream |-> <<>>]
                           ELSE dumps(l.obj)]
    /\ UNCHANGED <<pos, handles, handle_maps, current_handle, heap, stack,
                   ret, contents, status, err, transformers, epoch, reglog,
                   ev, nrec, probe, eof>>

SpecBlock == InitBlock /\ [][Marshalling]_vars

\* ------------------------------------------- the class levels of instances
\* The parse of a stream of instances of the classes LevelHeaders
InitLevels ==
    /\ InitParser
    /\ transformers \in TransformerLists
    /\ call = [fn |-> "levels"]

\* The steps of the parser on a stream of the tags LevelCodes
NextLevels ==
    \/ Run_Header \/ Run_End \/ Run_Reset \/ Run_Read \/ Run_Append \/ Load
    \/ ReadContent \/ DoNull
    \/ DoClassDesc_Null \/ DoClassDesc_Invalid
    \/ DoClassDesc_Header \/ DoClassDesc_Field \/ DoClassDesc_Bean
    \/ DoClassDesc_Annotations \/ DoClassDesc_Finish
    \/ ReadClassAnnotations_End \/ ReadClassAnnotations_Reset
    \/ ReadClassAnnotations_Read \/ ReadClassAnnotations_Got
    \/ DoObject_Start \/ DoObject_Body \/ DoObject_Return
    \/ ReadClassData_Class \/ ReadClassData_Field
    \/ ReadClassData_FieldsDone \/ ReadClassData_AnnGot
    \/ ReadClassData_Finish
    \/ Eof

SpecLevels == InitLevels /\ [][NextLevels]_vars

\* --------------------------------------------- enum constants and references
InitEnums ==
    /\ InitParser
    /\ transformers \in TransformerLists
    /\ call = [fn |-> "enums"]

\* The steps of the parser on a stream of the tags EnumCodes
NextEnums ==
    \/ Run_Header \/ Run_End \/ Run_Reset \/ Run_Read \/ Run_Append \/ Load
    \/ ReadContent \/ DoNull \/ DoReference \/ ReadNewString
    \/ DoClassDesc_Null \/ DoClassDesc_Reference \/ DoClassDesc_Invalid
    \/ DoClassDesc_Header \/ DoClassDesc_Bean
    \/ DoClassDesc_Annotations \/ DoClassDesc_Finish
    \/ ReadClassAnnotations_End \/ ReadClassAnnotations_Reset
    \/ ReadClassAnnotations_Read \/ ReadClassAnnotations_Got
    \/ DoEnum_Start \/ DoEnum_Body \/ DoEnum_Finish
    \/ Eof

SpecEnums == InitEnums /\ [][NextEnums]_vars

\* ------------------------------------- the references of the v1 unmarshaller
\* Objects in the reference list of the v1 unmarshaller
MaxReferences == 3
\* The kinds of objects the v1 unmarshaller adds to its references
ReferenceKinds == {"string", "classdesc", "object", "array"}
\* The handles a TC_REFERENCE of the stream may carry: an unsigned integer
\* of 32 bits, taken around BASE_REFERENCE_IDX, and zero
ReferenceHandles ==
    {0} \cup ((BASE_REFERENCE_IDX - MaxReferences - 1)
                  .. (BASE_REFERENCE_IDX + MaxReferences))

\* list[index] of Python: a negative index counts from the end of the list
list_getitem(list, index) ==
    IF index >= 0 /\ index < Len(list)
    THEN [raised |-> "", obj |-> list[index + 1]]
    ELSE IF index < 0 /\ -index <= Len(list)
    THEN [raised |-> "", obj |-> list[Len(list) + index + 1]]
    ELSE [raised |-> "IndexError", obj |-> [id |-> 0, type |-> ""]]

\* JavaObjectUnmarshaller._add_reference
add_reference(references, obj) == Append(references, obj)

\* JavaObjectUnmarshaller.do_reference, the handle read being "handle"
unmarshaller_do_reference(references, handle) ==
    list_getitem(references, handle - BASE_REFERENCE_IDX)

InitReferences ==
    /\ InitParser
    /\ transformers = <<"default">>
    /\ call = [fn |-> "unmarshaller", op |-> "init", references |-> <<>>,
               handle |-> 0,
               out |-> [raised |-> "", obj |-> [id |-> 0, type |-> ""]]]

\* A record that takes a handle has been read: the object is added
AddReference ==
    /\ call.fn = "unmarshaller"
    /\ Len(call.references) < MaxReferences
    /\ \E t \in ReferenceKinds :
         call' = [call EXCEPT
                     !.op = "add",
                     !.references =
                         add_reference(@, [id |-> Len(@) + 1, type |-> t])]
    /\ UNCHANGED <<pos, handles, handle_maps, current_handle, heap, stack,
                   ret, contents, status, err, transformers, epoch, reglog,
                   ev, nrec, probe, eof>>

\* A TC_REFERENCE has been read
UnmarshallerDoReference ==
    /\ call.fn = "unmarshaller"
    /\ \E handle \in ReferenceHandles :
         call' = [call EXCEPT
                     !.op = "reference",
                     !.handle = handle,
                     !.out = unmarshaller_do_reference(call.references,
                                                       handle)]
    /\ UNCHANGED <<pos, handles, handle_maps, current_handle, heap, stack,
                   ret, contents, status, err, transformers, epoch, reglog,
                   ev, nrec, probe, eof>>

SpecReferences ==
    InitReferences /\ [][AddReference \/ UnmarshallerDoReference]_vars

\* The parse with the default transformer alone; the parser is one
\* sequential program, which takes its next step as long as it has one
InitDefault == Init /\ transformers = <<"default">>

SpecDefault == InitDefault /\ [][Next]_vars /\ WF_vars(Next)

\* ------------------------------------------- the data type of a flags byte
\* The largest flags byte
MaxFlags == 255

InitDataType == Init

\* JavaClassDesc.data_type is evaluated for a flags byte; the ValueError is
\* kept as "raise"
DataTypeOf ==
    /\ \E flags \in 0 .. MaxFlags :
         probe' = [flags |-> flags, data_type |-> data_type(flags)]
    /\ UNCHANGED <<pos, handles, handle_maps, current_handle, heap, stack,
                   ret, contents, status, err, transformers, epoch, reglog,
                   ev, nrec, eof, call>>

SpecDataType == InitDataType /\ [][DataTypeOf]_vars

\* ================================================================== claims
\* The entries of the registration history for handle h in epoch e
Registered(e, h) ==
    {j \in 1 .. Len(reglog) : reglog[j].e = e /\ reglog[j].h = h}

\* C1: a TC_REFERENCE(h) that succeeds returns the very node that was
\* registered under h in the current epoch, and no other node was ever
\* registered under h in that epoch, whatever was allocated or registered
\* in between.
C1_ReferenceReturnsRegisteredNode ==
    (ev.op = "reference" /\ ev.ok) =>
        /\ ret = Ref(ev.n)
        /\ Registered(ev.e, ev.h) # {}
        /\ \A j \in Registered(ev.e, ev.h) : reglog[j].n = ev.n

\* A reference resolved after another node was registered in the same epoch
\* later than the node it names
C1_Witness ==
    /\ ev.op = "reference"
    /\ ev.ok
    /\ status = "running"
    /\ \E j \in Registered(ev.e, ev.h) :
         \E k \in (j + 1) .. Len(reglog) :
            reglog[k].e = ev.e /\ reglog[k].h # ev.h

\* C4: after any reset, a TC_REFERENCE succeeds exactly when its id has been
\* registered in the new epoch; it then returns a node registered in the new
\* epoch, never one registered before the reset; otherwise the parse fails
\* with the invalid-handle error.
C4_NoReferenceAcrossReset ==
    ev.op = "reference" =>
        /\ ev.ok <=> Registered(ev.e, ev.h) # {}
        /\ ev.ok => \A j \in 1 .. Len(reglog) :
                        reglog[j].n = ev.n => reglog[j].e = ev.e
        /\ ~ev.ok => status = "error" /\ err = "InvalidHandle"

\* A reference to an id registered before the last reset, and not since
C4_Witness ==
    /\ ev.op = "reference"
    /\ ~ev.ok
    /\ \E j \in 1 .. Len(reglog) : reglog[j].h = ev.h /\ reglog[j].e < ev.e
    /\ err = "InvalidHandle"

\* The running call registers a node under handle h in its next step
\* (the calls of _set_handle that no read of the stream precedes)
AttemptsRegister(h) ==
    \/ Running("do_classdesc", "super") /\ Top.h = h
    \/ Running("do_enum", "string") /\ Top.h = h
    \/ Running("do_class", "classdesc") /\ current_handle = h
    \/ Running("do_object", "classdesc") /\ IsRef(ret) /\ current_handle = h

\* C6: a TC_REFERENCE whose id is not a key of the current table fails the
\* parse and returns no node; registering under an id already in the table
\* fails, and the entries of the table never change while the epoch lasts.
C6_InvalidHandleAndCollision ==
    [][ /\ (ev'.op = "reference" /\ ev'.h \notin DOMAIN handles) =>
               /\ ~ev'.ok
               /\ status' = "error" /\ err' = "InvalidHandle"
               /\ ret' = ret /\ contents' = contents
        /\ \A h \in DOMAIN handles :
               /\ AttemptsRegister(h) =>
                      /\ status' = "error" /\ err' = "HandleCollision"
                      /\ handles' = handles
               /\ epoch' = epoch =>
                      h \in DOMAIN handles' /\ handles'[h] = handles[h]
      ]_vars

\* A registration under an id already in the table has failed
C6_Witness ==
    /\ err = "HandleCollision"
    /\ ev.op = "register"
    /\ ev.h \in DOMAIN handles
    /\ handles[ev.h] # ev.n

\* A frame whose node has its handle and whose nested content is being
\* parsed by the calls above it
ParsingNested(f) ==
    \/ f.fn = "do_classdesc" /\ f.pc \in {"annotations", "super"}
    \/ f.fn = "do_object" /\ f.pc = "class_data"
    \/ f.fn = "do_enum" /\ f.pc = "string"
    \/ f.fn = "do_array" /\ f.pc = "elem_got"

\* C2: while the nested content of a node that has its handle is parsed
\* (class annotations, super class descriptor, field values, array
\* elements, enum constant string), and no reset has happened since, the
\* handle table holds the node under that handle.
C2_RegisteredBeforeNested ==
    \A j \in 1 .. Len(stack) - 1 :
        (ParsingNested(stack[j]) /\ stack[j].ep = epoch) =>
            /\ stack[j].h \in DOMAIN handles
            /\ stack[j].n # 0 => handles[stack[j].h] = stack[j].n

\* C3: when a TC_ARRAY record has been parsed, the handle table holds the
\* array under the handle allocated for it.
C3_ArrayRegistered ==
    (ev.op = "array" /\ ev.ok) =>
        /\ ev.h \in DOMAIN handles
        /\ handles[ev.h] = ev.n

\* The instance whose field value the running _do_reference reads, if any
SelfFieldPending ==
    /\ Running("do_reference", "start")
    /\ Len(stack) >= 4
    /\ stack[Len(stack) - 1].fn = "read_content"
    /\ stack[Len(stack) - 2].fn = "read_class_data"
    /\ stack[Len(stack) - 2].pc = "field_got"
    /\ stack[Len(stack) - 3].fn = "do_object"
    /\ stack[Len(stack) - 3].ep = epoch

\* C5: a TC_REFERENCE to the handle of the object whose field value is
\* being read, in the epoch of that object, succeeds and returns the
\* enclosing instance without another call of the parser; the value is
\* stored for the field as that very instance, and the values kept for the
\* class become the field data of the instance.
C5_SelfReferenceStored ==
    [][ /\ (/\ SelfFieldPending
            /\ ev'.op = "reference"
            /\ ev'.h = heap[stack[Len(stack) - 2].n].handle) =>
               /\ status' = "running"
               /\ ret' = Ref(stack[Len(stack) - 2].n)
               /\ stack' = SubSeq(stack, 1, Len(stack) - 2)
        /\ (Running("read_class_data", "field_got") /\ ret = Ref(Top.n)) =>
               /\ status' = "running"
               /\ Len(stack') = Len(stack)
               /\ stack'[Len(stack')].vals = Append(Top.vals, Ref(Top.n))
        /\ (/\ Running("read_class_data", "field")
            /\ Top.k > Len(heap[Top.lst[Top.i]].fields)) =>
               /\ status' = "running"
               /\ stack'[Len(stack)].acc =
                      Append(Top.acc, [cd |-> Top.lst[Top.i],
                                       values |-> Top.vals])
        /\ (Running("read_class_data", "class") /\ Top.i > Len(Top.lst)) =>
               /\ status' = "running"
               /\ heap'[Top.n].field_data = Top.acc
      ]_vars

\* An instance read completely one of whose field values is the instance
C5_Witness ==
    \E n \in 1 .. Len(heap) :
        /\ heap[n].type = "instance"
        /\ heap[n].loaded
        /\ \E j \in 1 .. Len(heap[n].field_data) :
             \E k \in 1 .. Len(heap[n].field_data[j].values) :
                heap[n].field_data[j].values[k] = Ref(n)

\* The key sequence of the field data of instance n
FieldDataKeys(n) ==
    [j \in 1 .. Len(heap[n].field_data) |-> heap[n].field_data[j].cd]

\* The hierarchy of the class of instance n
HierarchyOf(n) == get_hierarchy(heap, heap[n].classdesc)

\* The class cd of instance n is read field by field
ReadByFields(n, cd) ==
    \/ data_type(heap[cd].desc_flags) = "NOWRCLASS"
    \/ /\ data_type(heap[cd].desc_flags) = "WRCLASS"
       /\ ~heap[n].is_external_instance

Instances == {n \in 1 .. Len(heap) : heap[n].type = "instance"}

\* C7, as stated: after a successful parse the hierarchy of every instance
\* equals the key sequence of its field data.  Instances with a class of
\* data type EXTERNAL_CONTENTS are left out.
C7_HierarchyEqualsKeys ==
    status = "done" =>
        \A n \in Instances :
            (\A j \in 1 .. Len(HierarchyOf(n)) :
                data_type(heap[HierarchyOf(n)[j]].desc_flags)
                    # "EXTERNAL_CONTENTS")
            => FieldDataKeys(n) = HierarchyOf(n)

\* C7, amended: for every instance whose class data has been read
\* completely, the key sequence of its field data is the hierarchy of its
\* class restricted to the classes read field by field (NOWRCLASS, or
\* WRCLASS when the instance is not an external one), in the same order.
C7_KeysAreFieldLevels ==
    \A n \in Instances :
        heap[n].loaded =>
            FieldDataKeys(n) =
                SelectSeq(HierarchyOf(n), LAMBDA cd : ReadByFields(n, cd))

\* A successful parse with an instance of two classes, one read field by
\* field and one read as annotations only
C7_Witness ==
    /\ status = "done"
    /\ \E n \in Instances :
         /\ heap[n].loaded
         /\ Len(HierarchyOf(n)) = 2
         /\ Len(heap[n].field_data) = 1

\* C8: data_type of a flags byte is NOWRCLASS when SC_SERIALIZABLE is set
\* without SC_WRITE_METHOD, WRCLASS when both are set, and, SC_SERIALIZABLE
\* apart, OBJECT_ANNOTATION when SC_EXTERNALIZABLE is set with
\* SC_WRITE_METHOD or SC_BLOCK_DATA and EXTERNAL_CONTENTS when it is set with
\* neither.
C8_DataTypeOfFlags ==
    probe.data_type # "none" =>
        LET f == probe.flags
        IN /\ (HasFlag(f, SC_SERIALIZABLE) /\ ~HasFlag(f, SC_WRITE_METHOD))
                  => probe.data_type = "NOWRCLASS"
           /\ (HasFlag(f, SC_SERIALIZABLE) /\ HasFlag(f, SC_WRITE_METHOD))
                  => probe.data_type = "WRCLASS"
           /\ (/\ ~HasFlag(f, SC_SERIALIZABLE)
               /\ HasFlag(f, SC_EXTERNALIZABLE)
               /\ (HasFlag(f, SC_WRITE_METHOD) \/ HasFlag(f, SC_BLOCK_DATA)))
                  => probe.data_type = "OBJECT_ANNOTATION"
           /\ (/\ ~HasFlag(f, SC_SERIALIZABLE)
               /\ HasFlag(f, SC_EXTERNALIZABLE)
               /\ ~HasFlag(f, SC_WRITE_METHOD)
               /\ ~HasFlag(f, SC_BLOCK_DATA))
                  => probe.data_type = "EXTERNAL_CONTENTS"

\* C9: no annotation stream is read for a class of data type
\* EXTERNAL_CONTENTS in the class data of an instance, and no instance with
\* such a class in its hierarchy is returned.
C9_ExternalContentsFails ==
    /\ \A j \in 1 .. Len(stack) :
          (stack[j].fn = "read_class_data" /\ stack[j].pc = "ann_got") =>
              data_type(heap[stack[j].lst[stack[j].i]].desc_flags)
                  # "EXTERNAL_CONTENTS"
    /\ (ev.op = "object" /\ ev.ok) =>
          \A j \in 1 .. Len(HierarchyOf(ev.n)) :
              data_type(heap[HierarchyOf(ev.n)[j]].desc_flags)
                  # "EXTERNAL_CONTENTS"

\* C10: after run() has returned, every class descriptor parsed satisfies
\* the invariants of JavaClassDesc.validate.
C10_AllDescriptorsValid ==
    status = "done" =>
        \A n \in 1 .. Len(heap) :
            heap[n].type = "classdesc" => validate(heap[n])

\* C11: no String or BlockData node has a payload shorter than the length
\* its record declares: a read that asks for more bytes than the stream
\* holds fails the parse.
C11_NoShortPayload ==
    \A n \in 1 .. Len(heap) :
        /\ heap[n].type = "string" => Len(heap[n].value) = heap[n].length
        /\ heap[n].type = "blockdata" => heap[n].data = heap[n].size

\* The exception instances built since the top-level item began
ExceptionsOfItem ==
    {n \in (stack[1].k + 1) .. Len(heap) :
        heap[n].type = "instance" /\ heap[n].is_exception}

\* C12: when a TC_EXCEPTION record has been read in a top-level item, as
\* the item or nested in it, the result appended for the item is an
\* ExceptionState that wraps the exception instance and has its handle, and
\* whose stream data runs from the offset of the leading tag of the item to
\* the cursor reached when the top-level loop has control again.
C12_ExceptionWrapped ==
    [][ (Running("run", "append") /\ ExceptionsOfItem # {}) =>
           /\ status' = "running"
           /\ Len(contents') = Len(contents) + 1
           /\ SubSeq(contents', 1, Len(contents)) = contents
           /\ LET x == contents'[Len(contents')]
              IN /\ IsRef(x)
                 /\ heap'[x.v].type = "exceptionstate"
                 /\ ExceptionsOfItem = {heap'[x.v].exception_object}
                 /\ heap'[x.v].handle =
                        heap[heap'[x.v].exception_object].handle
                 /\ heap'[x.v].stream_data = <<Top.start, pos>>
                 /\ pos' = pos
      ]_vars

\* An ExceptionState has been appended for an exception that was nested
\* in the item: other nodes of the item were built before its class
C12_Witness ==
    /\ ev.op = "append"
    /\ ev.n # 0
    /\ heap[ev.n].type = "exceptionstate"
    /\ heap[ev.n].exception_object >= stack[1].k + 3

\* run() has ended: it has returned or raised
Terminated == status \in {"done", "returned", "error"}

\* The steps that begin an iteration of a loop the stream drives: the
\* top-level loop, the loop of an annotation stream, and the loops over the
\* declared fields, the field values and the array elements
StreamIteration ==
    \/ Run_Read \/ Run_Reset
    \/ ReadClassAnnotations_Read \/ ReadClassAnnotations_Reset
    \/ ReadClassAnnotations_End
    \/ DoClassDesc_Field
    \/ ReadClassData_Field
    \/ DoArray_Elem

\* The step that ends an iteration of the loop over the classes of a
\* hierarchy in _read_class_data
ClassIterationEnds ==
    /\ Running("read_class_data", "field") \/ Running("read_class_data", "ann_got")
    /\ status' = "running"
    /\ Len(stack') = Len(stack)
    /\ stack'[Len(stack)].i = Top.i + 1

\* C13, as stated: run() terminates with the default transformer alone,
\* and every iteration of every loop of the parser consumes at least one
\* byte, the loop over the classes of a hierarchy included.
C13_EveryLoopConsumes ==
    /\ <>Terminated
    /\ [][ /\ (StreamIteration /\ status' = "running") => pos' > pos
           /\ ClassIterationEnds => pos' > Top.start
         ]_vars

\* C13, amended: run() terminates with the default transformer alone, and
\* every iteration of a loop the stream drives (top-level items, contents
\* of an annotation stream, declared fields, field values, array elements)
\* consumes at least one byte.
C13_Terminates ==
    /\ <>Terminated
    /\ [][ (StreamIteration /\ status' = "running") => pos' > pos ]_vars

\* run() has returned after an instance of a class without fields was
\* read, in an iteration that consumed nothing
C13_Witness ==
    /\ status = "done"
    /\ transformers = <<"default">>
    /\ \E n \in Instances :
         /\ heap[n].loaded
         /\ Len(heap[n].field_data) >= 1
         /\ heap[n].field_data[1].values = <<>>

\* C14: load() returns None when no top-level item was read, the item
\* itself when one was, and otherwise the list of the items in the order
\* they were read; each item adds one element at the end of the contents
\* and nothing else changes them, a top-level TC_RESET in particular.
C14_LoadResult ==
    [][ /\ contents' # contents =>
               /\ Running("run", "append")
               /\ contents' = Append(contents, contents'[Len(contents')])
               /\ Len(contents') = Top.i
        /\ status' = "returned" =>
               /\ contents' = contents
               /\ Len(contents) = stack[1].i
               /\ Len(contents) = 0 => ret' = Null
               /\ Len(contents) = 1 => ret' = contents[1]
               /\ Len(contents) > 1 => ret' = [t |-> "list", v |-> contents]
      ]_vars

\* load() has returned the list of two items read on either side of a
\* top-level TC_RESET
C14_Witness ==
    /\ status = "returned"
    /\ ret = [t |-> "list", v |-> contents]
    /\ Len(contents) = 2
    /\ epoch = 2
    /\ Len(handle_maps) = 2

\* C15: the list load() gives the parser is the transformers of the caller
\* in the order given, then the default transformer exactly when none of
\* them is one, then the NumPy transformer exactly when use_numpy_arrays is
\* set; the instance made for a class is the result of the first
\* transformer of that list whose create_instance returns one, and a plain
\* JavaInstance when none does.
C15_FirstTransformerWins ==
    call.fn \in {"load", "create_instance"} =>
        LET callers == call.callers
            n == Len(callers)
            has_default == \E j \in 1 .. n : callers[j] = "default"
            d == IF has_default THEN 0 ELSE 1
        IN /\ SubSeq(transformers, 1, n) = callers
           /\ Len(transformers) =
                  n + d + (IF call.use_numpy_arrays THEN 1 ELSE 0)
           /\ ~has_default => transformers[n + 1] = "default"
           /\ call.use_numpy_arrays =>
                  transformers[Len(transformers)] = "numpy"
           /\ \A j \in 1 .. Len(transformers) :
                  transformers[j] = "numpy" =>
                      call.use_numpy_arrays /\ j = Len(transformers)
           /\ call.fn = "create_instance" =>
                  LET c == call.instance.creator
                  IN /\ c \in 0 .. Len(transformers)
                     /\ \A j \in 1 .. Len(transformers) :
                            (c = 0 \/ j < c) =>
                                ~creates_instance(transformers[j], call.name)
                     /\ c # 0 => creates_instance(transformers[c], call.name)
                     /\ c = 0 => call.instance = JavaInstance

\* An instance made by the first of two transformers of the caller that
\* both make one for the class, the default transformer coming after them
C15_Witness ==
    /\ call.fn = "create_instance"
    /\ call.callers = <<"other", "user">>
    /\ call.name = <<"A">>
    /\ call.instance.creator = 1
    /\ transformers = <<"other", "user", "default", "numpy">>

\* Every class of the hierarchy of instance n is read field by field
AllByFields(n) ==
    \A j \in 1 .. Len(HierarchyOf(n)) : ReadByFields(n, HierarchyOf(n)[j])

\* The value x is of the kind the field type t takes
OfFieldType(x, t) == (x.t = "prim") <=> (t \in PrimitiveChars)

\* C16: for an instance whose classes are all read field by field, the
\* values are read class by class in the order of the hierarchy, super
\* class first, and for one class in the order of its declared fields: the
\* classes done are the first of the hierarchy, each with one value per
\* declared field, and the k-th value read for a class is put k-th among
\* its values, under the k-th declared field.
C16_FieldOrder ==
    [][ /\ \A j \in 1 .. Len(stack) :
              (stack[j].fn = "read_class_data" /\ AllByFields(stack[j].n)) =>
                  LET f == stack[j]
                  IN /\ f.lst = HierarchyOf(f.n)
                     /\ [q \in 1 .. Len(f.acc) |-> f.acc[q].cd] =
                            SubSeq(f.lst, 1, Len(f.acc))
                     /\ \A q \in 1 .. Len(f.acc) :
                            /\ Len(f.acc[q].values) =
                                   Len(heap[f.acc[q].cd].fields)
                            /\ \A k \in 1 .. Len(f.acc[q].values) :
                                   OfFieldType(f.acc[q].values[k],
                                       heap[f.acc[q].cd].fields[k].type)
                     /\ f.pc \in {"field", "field_got"} =>
                            /\ Len(f.acc) = f.i - 1
                            /\ Len(f.vals) = f.k - 1
        /\ (/\ Running("read_class_data", "field")
            /\ AllByFields(Top.n)
            /\ Top.k <= Len(heap[Top.lst[Top.i]].fields)
            /\ status' = "running"
            /\ Len(stack') = Len(stack)) =>
               /\ stack'[Len(stack)].vals = Append(Top.vals, ret')
               /\ stack'[Len(stack)].k = Top.k + 1
               /\ stack'[Len(stack)].i = Top.i
               /\ pos' > pos
        /\ (/\ Running("read_class_data", "field_got")
            /\ AllByFields(Top.n)
            /\ status' = "running"
            /\ Len(stack') = Len(stack)) =>
               /\ stack'[Len(stack)].vals = Append(Top.vals, ret)
               /\ stack'[Len(stack)].k = Top.k + 1
               /\ stack'[Len(stack)].i = Top.i
        /\ (Running("read_class_data", "class") /\ AllByFields(Top.n)
            /\ Top.i > Len(Top.lst)) =>
               /\ status' = "running"
               /\ heap'[Top.n].field_data = Top.acc
               /\ FieldDataKeys(Top.n)' = HierarchyOf(Top.n)
      ]_vars

\* An instance of a class with a super class, both read field by field,
\* the class declaring two fields
C16_Witness ==
    \E n \in Instances :
        /\ heap[n].loaded
        /\ AllByFields(n)
        /\ Len(heap[n].field_data) = 2
        /\ heap[n].field_data[1].cd = heap[heap[n].classdesc].super_class
        /\ heap[n].field_data[2].cd = heap[n].classdesc
        /\ Len(heap[n].field_data[2].values) = 2

\* C17: no Array node is produced for a TC_ARRAY record whose class
\* descriptor has a name that does not begin with "[": the record is
\* rejected with an error.
C17_ArrayNameChecked ==
    \A n \in 1 .. Len(heap) :
        heap[n].type = "array" => heap[heap[n].classdesc].name[1] = "["

\* The places of the keys of an annotation list a0, k1, v1, ..., kn, vn
KeyPlaces(a) == {i \in 2 .. Len(a) : i % 2 = 0}

\* C18: for an instance of java.util.HashMap or java.util.TreeMap whose
\* annotation list is a0, k1, v1, ..., kn, vn, the transformer yields the
\* map that holds exactly the keys ki, each once, in the order they first
\* come, with the value that follows the last occurrence of the key; a0 is
\* ignored.
C18_MapPairs ==
    (/\ call.fn = "load_from_instance"
     /\ call.name \in JavaMap_HANDLED_CLASSES
     /\ Len(call.annotations) % 2 = 1) =>
        LET a == call.annotations
            d == call.out.map
        IN /\ call.out.raised = ""
           /\ call.out.result
           /\ {d[j].key : j \in 1 .. Len(d)} = {a[i] : i \in KeyPlaces(a)}
           /\ \A j, m \in 1 .. Len(d) : d[j].key = d[m].key => j = m
           /\ \A j \in 1 .. Len(d) :
                  \E i \in KeyPlaces(a) :
                     /\ a[i] = d[j].key
                     /\ a[i + 1] = d[j].value
                     /\ \A q \in KeyPlaces(a) : a[q] = a[i] => q <= i
           /\ \A j, m \in 1 .. Len(d) :
                  j < m =>
                     \E i \in KeyPlaces(a) :
                        /\ a[i] = d[j].key
                        /\ \A q \in KeyPlaces(a) : a[q] = d[m].key => i < q

\* The data holds a whole LOCAL_TIME payload
LocalTimePayload(d) ==
    /\ Len(d) >= 1
    /\ \/ unpack_b(d[1]) < 0
       \/ /\ Len(d) >= 2
          /\ \/ unpack_b(d[2]) < 0
             \/ /\ Len(d) >= 3
                /\ \/ unpack_b(d[3]) < 0
                   \/ Len(d) >= 7

\* The decoder has consumed n bytes of d and set the four fields
Decoded(d, o, n, hour, minute, second, nano) ==
    /\ o.raised = ""
    /\ o.data = SubSeq(d, n + 1, Len(d))
    /\ o.hour = hour
    /\ o.minute = minute
    /\ o.second = second
    /\ o.nano = nano

\* C19: decoding a LOCAL_TIME payload reads a signed byte hour; a negative
\* one gives hour = -hour - 1, minute = second = nano = 0 and no further
\* byte is consumed; otherwise the same rule applies to the minute byte,
\* then to the second byte, and the 32-bit nano is read only when the
\* three bytes are non-negative.
C19_LocalTime ==
    (call.fn = "do_local_time" /\ LocalTimePayload(call.data)) =>
        LET d == call.data
            o == call.out
        IN IF unpack_b(d[1]) < 0
           THEN Decoded(d, o, 1, -unpack_b(d[1]) - 1, 0, 0, 0)
           ELSE IF unpack_b(d[2]) < 0
           THEN Decoded(d, o, 2, unpack_b(d[1]), -unpack_b(d[2]) - 1, 0, 0)
           ELSE IF unpack_b(d[3]) < 0
           THEN Decoded(d, o, 3, unpack_b(d[1]), unpack_b(d[2]),
                        -unpack_b(d[3]) - 1, 0)
           ELSE Decoded(d, o, 7, unpack_b(d[1]), unpack_b(d[2]),
                        unpack_b(d[3]), unpack_i(SubSeq(d, 4, 7)))

\* A negative minute byte ends the decoding, with bytes left in the data
C19_Witness ==
    /\ call.fn = "do_local_time"
    /\ Len(call.data) = 4
    /\ unpack_b(call.data[1]) = 5
    /\ unpack_b(call.data[2]) = -128
    /\ call.out.raised = ""
    /\ call.out.minute = 127
    /\ Len(call.out.data) = 2

\* A step of the running parser, that leaves the waiting one as it was
StepOfOne ==
    /\ call'.running = call.running
    /\ call'.other = call.other
    /\ Private' # Private

\* A change of turn, that leaves both parsers as they were
ChangeOfTurn ==
    /\ call'.running # call.running
    /\ call'.other = Private
    /\ Private' = call.other

\* C20: of two parsers run with their steps interleaved on one
\* DefaultObjectTransformer, every step is a step of one of them on its own
\* attributes (handle table, handle counter, descriptors, result), the
\* attributes of the other and the transformer being left as they were: each
\* goes through the states of its run alone.
C20_Independent ==
    [][call.fn = "two" =>
          /\ transformers' = transformers
          /\ StepOfOne \/ ChangeOfTurn]_vars

\* Both parsers are in the middle of their runs and both have given their
\* first handle
C20_Witness ==
    /\ call.fn = "two"
    /\ status = "running"
    /\ call.other.status = "running"
    /\ Len(reglog) > 0
    /\ Len(call.other.reglog) > 0
    /\ current_handle = BASE_REFERENCE_IDX + 1
    /\ call.other.current_handle = BASE_REFERENCE_IDX + 1

\* C21: for every stream made of the header and one block-data record in
\* canonical form, dumps(loads(stream)) returns the bytes of the stream.
C21_BlockRoundTrip ==
    call.fn = "dumps" =>
        /\ call.out.raised = ""
        /\ call.out.stream = call.stream

\* The last step has begun a record that takes a handle: a string, a class
\* descriptor or a proxy class descriptor, an instance, a class, an enum or
\* an array
NewRecord ==
    /\ ev.ok
    /\ \/ ev.op \in {"string", "classdesc_header", "instance", "class",
                     "enum_header", "array_header"}
       \/ /\ ev.op = "classdesc_bean"
          /\ heap[ev.n].class_type = "PROXYCLASS"

\* C22: within one epoch the handles are given in stream order from
\* 0x7E0000, one by one: a step that begins a STRING, LONGSTRING, CLASSDESC,
\* PROXYCLASSDESC, OBJECT, CLASS, ENUM or ARRAY record gives the counter as
\* the handle and adds one to it, every other step (null, reference, block
\* data, ...) leaves the counter as it is, and a reset puts it back to
\* 0x7E0000.
C22_HandlesInStreamOrder ==
    [][status' # "error" =>
          IF epoch' # epoch
          THEN current_handle' = BASE_REFERENCE_IDX
          ELSE IF NewRecord' /\ ev' # ev
          THEN /\ ev'.h = current_handle
               /\ current_handle' = current_handle + 1
          ELSE current_handle' = current_handle]_vars

\* A string is given 0x7E0000 in an epoch that follows one in which
\* handles were given
C22_Witness ==
    /\ status = "running"
    /\ epoch >= 2
    /\ Len(handle_maps) > 0
    /\ ev.op = "string"
    /\ ev.ok
    /\ ev.h = BASE_REFERENCE_IDX
    /\ current_handle = BASE_REFERENCE_IDX + 1

\* C23: in every state of the parser, every key of the current handle
\* table is at least 0x7E0000 and below the handle counter, and no
\* registration finds its handle in the table.
C23_KeysBelowCounter ==
    /\ \A h \in DOMAIN handles :
          h >= BASE_REFERENCE_IDX /\ h < current_handle
    /\ err # "HandleCollision"

\* The super chain of a class descriptor, from the descriptor up
RECURSIVE SuperChain(_)
SuperChain(cd) ==
    <<cd>> \o (IF heap[cd].super_class = 0 THEN <<>>
               ELSE SuperChain(heap[cd].super_class))

Reversed(q) == [j \in 1 .. Len(q) |-> q[Len(q) + 1 - j]]

ClassDescs == {n \in 1 .. Len(heap) : heap[n].type = "classdesc"}

\* C24: get_hierarchy() on a class descriptor yields its super chain, the
\* super class first and the descriptor last, with every class of the chain
\* that is not a proxy class once, only the proxy classes in super position
\* being left out.
C24_HierarchyIsSuperChain ==
    \A cd \in ClassDescs :
        get_hierarchy(heap, cd) =
            Reversed(SelectSeq(SuperChain(cd),
                               LAMBDA x : \/ x = cd
                                          \/ heap[x].class_type # "PROXYCLASS"))

\* The value is null or an array
NullOrArray(x) == x = Null \/ (IsRef(x) /\ heap[x.v].type = "array")

\* C25: the value parsed for an instance field or an array element of type
\* '[' is null or an array: the values read for the fields of the classes
\* done and of the class being read, and the elements of the arrays built.
C25_ArrayValues ==
    /\ \A j \in 1 .. Len(stack) :
          stack[j].fn = "read_class_data" =>
              LET f == stack[j]
              IN /\ \A q \in 1 .. Len(f.acc) :
                        \A k \in 1 .. Len(f.acc[q].values) :
                            (/\ k <= Len(heap[f.acc[q].cd].fields)
                             /\ heap[f.acc[q].cd].fields[k].type = "[") =>
                                NullOrArray(f.acc[q].values[k])
                 /\ f.i <= Len(f.lst) =>
                        \A k \in 1 .. Len(f.vals) :
                            (/\ k <= Len(heap[f.lst[f.i]].fields)
                             /\ heap[f.lst[f.i]].fields[k].type = "[") =>
                                NullOrArray(f.vals[k])
    /\ \A n \in 1 .. Len(heap) :
          (heap[n].type = "array" /\ heap[n].field_type = "[") =>
              \A k \in 1 .. Len(heap[n].data) : NullOrArray(heap[n].data[k])

\* Instance n was made by a transformer of the caller for a class name the
\* default transformer does not map
MadeByCaller(n) ==
    /\ heap[n].creator # 0
    /\ transformers[heap[n].creator] # "default"
    /\ heap[heap[n].classdesc].name \notin DefaultHandledClasses

\* The classes the annotations of instance n are kept for
AnnotationKeys(n) ==
    [j \in 1 .. Len(heap[n].annotations) |-> heap[n].annotations[j].cd]

InSeq(x, q) == \E j \in 1 .. Len(q) : q[j] = x

\* The values kept for class cd of instance n are one for each declared field
FieldsRead(n, cd) ==
    \E j \in 1 .. Len(heap[n].field_data) :
        /\ heap[n].field_data[j].cd = cd
        /\ Len(heap[n].field_data[j].values) = Len(heap[cd].fields)

\* C26: for an instance made by a transformer of the caller for a class name
\* the default transformer does not map, a WRCLASS level is read as an
\* annotation stream only (no value is read, no entry in field_data) and a
\* NOWRCLASS level field by field; for any other instance a WRCLASS level is
\* read field by field first, then as an annotation stream.
C26_LevelsOfExternalInstances ==
    /\ \A n \in Instances :
          heap[n].loaded =>
              \A j \in 1 .. Len(HierarchyOf(n)) :
                  LET cd == HierarchyOf(n)[j]
                      dt == data_type(heap[cd].desc_flags)
                  IN /\ dt = "NOWRCLASS" =>
                            /\ FieldsRead(n, cd)
                            /\ ~InSeq(cd, AnnotationKeys(n))
                     /\ (dt = "WRCLASS" /\ MadeByCaller(n)) =>
                            /\ ~InSeq(cd, FieldDataKeys(n))
                            /\ InSeq(cd, AnnotationKeys(n))
                     /\ (dt = "WRCLASS" /\ ~MadeByCaller(n)) =>
                            /\ FieldsRead(n, cd)
                            /\ InSeq(cd, AnnotationKeys(n))
    /\ \A j \in 1 .. Len(stack) :
          LET f == stack[j]
          IN (/\ f.fn = "read_class_data"
              /\ f.pc = "ann_got"
              /\ data_type(heap[f.lst[f.i]].desc_flags) = "WRCLASS") =>
                 IF MadeByCaller(f.n)
                 THEN \A q \in 1 .. Len(f.acc) : f.acc[q].cd # f.lst[f.i]
                 ELSE /\ f.acc # <<>>
                      /\ f.acc[Len(f.acc)].cd = f.lst[f.i]
                      /\ Len(f.acc[Len(f.acc)].values) =
                             Len(heap[f.lst[f.i]].fields)

\* An instance made by the transformer of the caller has been read: its
\* class has a write method and a declared field, its super class has a
\* declared field and no write method
C26_Witness ==
    /\ call.fn = "levels"
    /\ \E n \in Instances :
         /\ heap[n].loaded
         /\ MadeByCaller(n)
         /\ heap[n].is_external_instance
         /\ Len(HierarchyOf(n)) = 2
         /\ data_type(heap[HierarchyOf(n)[1]].desc_flags) = "NOWRCLASS"
         /\ data_type(heap[HierarchyOf(n)[2]].desc_flags) = "WRCLASS"
         /\ Len(heap[HierarchyOf(n)[1]].fields) = 1
         /\ Len(heap[HierarchyOf(n)[2]].fields) = 1
         /\ FieldDataKeys(n) = <<HierarchyOf(n)[1]>>
         /\ AnnotationKeys(n) = <<HierarchyOf(n)[2]>>

\* The step is the delegation of a custom writeObject
Delegation == err' = "CustomReadObjectUnhandled" /\ err = ""
\* The step is the capture of the bytes of an exception by run()
Capture ==
    /\ Running("run", "append")
    /\ ev'.op = "append"
    /\ ev'.n # 0
\* The step has sought to an offset
Sought == ev' # ev /\ ev'.sk # -1

\* C27, as stated: the cursor goes backwards only in the delegation of a
\* custom writeObject, and then by one byte; every other step, the capture
\* of the bytes of an exception included, leaves the cursor at or after the
\* position it had and seeks to no earlier offset.
C27_OnlyDelegationSeeksBack ==
    [][IF Delegation
       THEN pos' = pos - 1
       ELSE pos' >= pos /\ ~(Sought /\ ev'.sk < pos)]_vars

\* C27, amended: the cursor is sought backwards in the delegation of a
\* custom writeObject, by one byte, and in the capture of the bytes of an
\* exception by run(), to the offset where the item began, the bytes being
\* read again up to the position the cursor had; every other step leaves the
\* cursor at or after the position it had and seeks to no offset.
C27_SeeksBack ==
    [][IF Delegation
       THEN Sought /\ ev'.sk = pos - 1 /\ pos' = pos - 1
       ELSE IF Capture
       THEN Sought /\ ev'.sk = Top.start /\ ev'.sk < pos /\ pos' = pos
       ELSE pos' >= pos /\ ~Sought]_vars

\* run() has captured the bytes of an exception: it has sought to the
\* offset where the item began and the cursor is where it was
C27_Witness ==
    /\ ev.op = "append"
    /\ ev.n # 0
    /\ heap[ev.n].type = "exceptionstate"
    /\ ev.sk = heap[ev.n].stream_data[1]
    /\ ev.sk < pos
    /\ pos = heap[ev.n].stream_data[2]

\* C28: a reset changes the current table and the handle counter only: the
\* nodes built before it, with their fields, elements and annotations, and
\* the top-level results collected are as they were (the step of
\* _do_exception that resets also marks the instance it returns), the table
\* the reset empties is appended to the archive when it has entries, and a
\* lookup consults the current table alone.
C28_ResetLeavesNodes ==
    [][/\ epoch' # epoch =>
            /\ epoch' = epoch + 1
            /\ handles' = <<>>
            /\ current_handle' = BASE_REFERENCE_IDX
            /\ handle_maps' = IF DOMAIN handles # {}
                              THEN Append(handle_maps, handles)
                              ELSE handle_maps
            /\ contents' = contents
            /\ IF Running("do_exception", "got")
               THEN heap' = [heap EXCEPT ![ret.v].is_exception = TRUE]
               ELSE heap' = heap
       /\ (ev' # ev /\ ev'.op = "reference") =>
            /\ ev'.ok <=> ev'.h \in DOMAIN handles
            /\ ev'.ok => ev'.n = handles[ev'.h] /\ ret' = Ref(ev'.n)
            /\ ~ev'.ok => err' = "InvalidHandle"]_vars

\* After a reset that archived a table with entries, with nodes built and
\* a result collected before it, a lookup of a handle of the archived table
\* has failed
C28_Witness ==
    /\ ev.op = "reference"
    /\ ~ev.ok
    /\ \E i \in 1 .. Len(handle_maps) : ev.h \in DOMAIN handle_maps[i]
    /\ handles = <<>>
    /\ Len(contents) > 0
    /\ Len(heap) > 0

C30_ReferenceAssigned ==
    (call.fn = "unmarshaller" /\ call.op = "reference") =>
        LET index == call.handle - BASE_REFERENCE_IDX
        IN IF index >= 0 /\ index < Len(call.references)
           THEN /\ call.out.raised = ""
                /\ call.out.obj = call.references[index + 1]
           ELSE call.out.raised # ""

====
